---- MODULE Spec2Model ----
(***************************************************************************)
(* Verification model of the grokbot memory/context engine:                *)
(*   - the persistent memory store        (src/src/memory.js)              *)
(*   - the rate limiter                   (src/src/rateLimit.js)           *)
(*   - the message / edit / ask handlers  (src/src/editSync.js,            *)
(*     src/unnamed/part_001, src/src/handlers/handlePrompt.js)             *)
(*                                                                         *)
(* Text is modelled as a sequence of tokens (words, the trigger phrases of *)
(* SUMMARY_HINTS, and sentence terminators).  A summary is the sequence of *)
(* its '\n'-separated lines; a line "Label: value" is the record           *)
(* [label, value].  No token of the model contains a newline.              *)
(* Time is in milliseconds, as returned by Date.now().                     *)
(***************************************************************************)
EXTENDS Integers, Sequences, FiniteSets, Bags, TLC

VARIABLES
  db,             \* the SQLite database of memory.js, one field per table
  now,            \* Date.now()
  state,          \* rateLimit.js: Map userId -> {lastAt, lastPrompt, duplicateCount}
  inMemoryTurns,  \* short-term turn cache: Map userId -> turns
  tasks,          \* in-flight asynchronous handlers, one record per slot
  runs,           \* history: per identity, the run of allowed requests observed so far
  lastOp,         \* history: the operation performed by the last step and its outcome
  editState,      \* editSync.js: Map userMessageId -> {botReplyId, createdAt, lastEditAt}
  messages        \* the messages of the conversation as the chat platform holds them, by id

vars == <<db, now, state, inMemoryTurns, tasks, runs, lastOp, editState, messages>>

----------------------------------------------------------------------------
(* Program constants *)

COOLDOWN_MS == 3000
TWENTY_FOUR_HOURS_MS == 86400000
USER_CADENCE == 20
GUILD_CADENCE == 30
MAX_TURNS == 6
RETRY_DELAY_MS == 300
MAX_IN_MEMORY_TURNS == 1000

(* Bounds of the model *)

MaxLog == 2          \* rows ever inserted into user_messages
MaxMemInstants == 3  \* clock readings after the start in the store specification
MaxRateWindows == 1  \* cooldown windows of clock covered by the rate-limiter specification
MaxDuplicates == 3   \* cap of duplicateCount
MaxBotLog == 1       \* rows ever inserted into user_messages in the handler specification
MaxTasks == 1        \* concurrently in-flight handlers
MaxInFlight == 2     \* in-flight handlers where their interleaving is the subject
MaxFetches == 2      \* fetchImageAsDataUrl calls started
MaxEvents == 2       \* events dispatched to wrapped handlers
MaxBotTurns == 2     \* cached turns of a user when a remembered prompt starts
MaxMessages == 2     \* user messages created in the edit specification
MaxEdits == 2        \* accepted edits of one message
MaxAdds == 7         \* addTurn calls for one identity in the turn-cache specifications

(* The process starts at a Date.now() that is more than 24h after the epoch. *)
T0 == TWENTY_FOUR_HOURS_MS + 13600000

Users == {"u1", "u2"}
Guilds == {"g1"}
NoGuild == "null"
GuildChannels == {"c1", "c2"}
DMChannels == {"dm1"}
Channels == GuildChannels \cup DMChannels
ChannelGuild(c) == IF c \in GuildChannels THEN "g1" ELSE NoGuild

Range(s) == {s[i] : i \in 1..Len(s)}

----------------------------------------------------------------------------
(* Text: SUMMARY_HINTS and extractSummaryNotes *)

Terminators == {".", "!", "?"}

SUMMARY_HINTS ==
  << [phrase |-> "my name is", label |-> "Name"],
     [phrase |-> "call me", label |-> "Preferred name"],
     [phrase |-> "i like", label |-> "Likes"],
     [phrase |-> "i hate", label |-> "Dislikes"],
     [phrase |-> "my pronouns are", label |-> "Pronouns"] >>

\* Positions where the regex /<phrase> ([^.!?]+)/ can match: the phrase
\* followed by at least one token that is not a terminator.
MatchPositionsAnchored(message, phrase) ==
  {i \in 1..(Len(message) - 1) :
     i = 1 /\ message[i] = phrase /\ message[i + 1] \notin Terminators}

MatchPositions(message, phrase) ==
  {i \in 1..(Len(message) - 1) :
     message[i] = phrase /\ message[i + 1] \notin Terminators}

\* The capture group [^.!?]+ is greedy: it runs to the next terminator or
\* to the end of the text.
CaptureEnd(message, from) ==
  LET stops == {j \in from..Len(message) : message[j] \in Terminators}
  IN IF stops = {} THEN Len(message)
     ELSE (CHOOSE j \in stops : \A k \in stops : j <= k) - 1

Capture(message, phrase) ==
  LET ps == MatchPositions(message, phrase)
      i == CHOOSE p \in ps : \A q \in ps : p <= q
  IN SubSeq(message, i + 1, CaptureEnd(message, i + 1))

RECURSIVE NotesFrom(_, _)
NotesFrom(message, h) ==
  IF h > Len(SUMMARY_HINTS) THEN <<>>
  ELSE LET hint == SUMMARY_HINTS[h]
       IN (IF MatchPositions(message, hint.phrase) # {}
           THEN << [label |-> hint.label, value |-> Capture(message, hint.phrase)] >>
           ELSE <<>>) \o NotesFrom(message, h + 1)

extractSummaryNotes(message) == NotesFrom(message, 1)

\* new Set(lines) followed by set.add(note): insertion order, exact
\* duplicates dropped.
RECURSIVE SetAddAll(_, _)
SetAddAll(acc, items) ==
  IF items = <<>> THEN acc
  ELSE SetAddAll(IF Head(items) \in Range(acc) THEN acc ELSE Append(acc, Head(items)),
                 Tail(items))

normalizeSummary(currentSummary, newNotes) ==
  IF newNotes = <<>> THEN currentSummary
  ELSE SetAddAll(<<>>, currentSummary \o newNotes)

----------------------------------------------------------------------------
(* The store: tables are functions whose domain is the set of present keys *)

EmptyTable == [k \in {} |-> 0]

Upsert(table, key, row) == (key :> row) @@ table
DeleteKeys(table, keys) == [k \in (DOMAIN table) \ keys |-> table[k]]

\* user_messages.id is AUTOINCREMENT: last_id is the sqlite_sequence counter,
\* which deleting rows does not lower.
EmptyStore ==
  [ user_messages |-> <<>>,
    last_id |-> 0,
    user_settings |-> EmptyTable,
    channel_allowlist |-> EmptyTable,
    channel_profiles |-> EmptyTable,
    guild_profiles |-> EmptyTable,
    guild_users |-> EmptyTable ]

getUserSettings(d, userId) ==
  IF userId \in DOMAIN d.user_settings
  THEN d.user_settings[userId]
  ELSE [memory_enabled |-> 1, profile_summary |-> <<>>,
        message_count |-> 0, last_summary_at |-> 0]

getChannelProfile(d, channelId, guildId) ==
  IF channelId \in DOMAIN d.channel_profiles
  THEN d.channel_profiles[channelId]
  ELSE [guild_id |-> guildId, summary |-> <<>>,
        message_count |-> 0, last_summary_at |-> 0]

getGuildProfile(d, guildId) ==
  IF guildId \in DOMAIN d.guild_profiles
  THEN d.guild_profiles[guildId]
  ELSE [summary |-> <<>>, message_count |-> 0, last_summary_at |-> 0]

isChannelAllowedAnyEntry(d, channelId) ==
  channelId \in DOMAIN d.channel_allowlist

isChannelAllowed(d, channelId) ==
  channelId \in DOMAIN d.channel_allowlist /\ d.channel_allowlist[channelId] = 1

allowChannelStmtToggle(d, channelId) ==
  [d EXCEPT !.channel_allowlist =
     Upsert(@, channelId, IF isChannelAllowed(d, channelId) THEN 0 ELSE 1)]

allowChannelStmt(d, channelId) ==
  [d EXCEPT !.channel_allowlist = Upsert(@, channelId, 1)]

denyChannelStmt(d, channelId) ==
  [d EXCEPT !.channel_allowlist = Upsert(@, channelId, 0)]

setUserMemoryStmt(d, userId, enabled) ==
  LET current == getUserSettings(d, userId)
  IN [d EXCEPT !.user_settings =
        Upsert(@, userId, [current EXCEPT !.memory_enabled = IF enabled THEN 1 ELSE 0])]

deleteUserMessagesStmtKeepsRows(d, userId) == d

deleteUserMessagesStmt(d, userId) ==
  [d EXCEPT !.user_messages = SelectSeq(@, LAMBDA r : r.user_id # userId)]

forgetUserStmtsReEnabling(d, userId) ==
  LET d1 == deleteUserMessagesStmt(d, userId)
  IN [d1 EXCEPT !.user_settings =
        Upsert(@, userId, [memory_enabled |-> 1,
                           profile_summary |-> <<>>,
                           message_count |-> 0,
                           last_summary_at |-> 0])]

forgetUserStmts(d, userId) ==
  LET d1 == deleteUserMessagesStmt(d, userId)
      current == getUserSettings(d1, userId)
  IN [d1 EXCEPT !.user_settings =
        Upsert(@, userId, [memory_enabled |-> current.memory_enabled,
                           profile_summary |-> <<>>,
                           message_count |-> 0,
                           last_summary_at |-> 0])]

resetChannelMemoryStmts(d, channelId) ==
  [d EXCEPT !.user_messages = SelectSeq(@, LAMBDA r : r.channel_id # channelId),
            !.channel_profiles = DeleteKeys(@, {channelId})]

resetGuildMemoryStmts(d, guildId) ==
  [d EXCEPT !.user_messages = SelectSeq(@, LAMBDA r : r.guild_id # guildId),
            !.guild_profiles = DeleteKeys(@, {guildId}),
            !.channel_profiles =
               DeleteKeys(@, {c \in DOMAIN @ : @[c].guild_id = guildId}),
            !.guild_users =
               DeleteKeys(@, {k \in DOMAIN @ : k[1] = guildId})]

----------------------------------------------------------------------------
(* recordUserMessage, statement by statement *)

SummaryDueOnCadenceAlone(notes, count, cadence, timeSinceLastSummary) ==
  count % cadence = 0 \/ timeSinceLastSummary > TWENTY_FOUR_HOURS_MS

\* (notes.length > 0 && count % cadence === 0) || timeSinceLastSummary > 24h
SummaryDue(notes, count, cadence, timeSinceLastSummary) ==
  (notes # <<>> /\ count % cadence = 0)
  \/ timeSinceLastSummary > TWENTY_FOUR_HOURS_MS

ShouldUpdateSummary(notes, timeSinceLastSummary) ==
  notes # <<>> \/ timeSinceLastSummary > TWENTY_FOUR_HOURS_MS

insertMessageStmt(d, a, t) ==
  [d EXCEPT !.user_messages =
     Append(@, [id |-> d.last_id + 1, user_id |-> a.userId, channel_id |-> a.channelId,
                guild_id |-> a.guildId, content |-> a.content, created_at |-> t]),
            !.last_id = @ + 1]

upsertSettingsStepStaleCount(d, a, t) ==
  [d EXCEPT !.user_settings =
     Upsert(@, a.userId, [getUserSettings(d, a.userId) EXCEPT
                            !.message_count = IF @ = 0 THEN 1 ELSE @])]

upsertSettingsStep(d, a, t) ==
  LET notes == extractSummaryNotes(a.content)
      current == getUserSettings(d, a.userId)
      nextCount == current.message_count + 1
      timeSinceLastSummary == t - current.last_summary_at
      shouldUpdateSummary == ShouldUpdateSummary(notes, timeSinceLastSummary)
      summaryDue == SummaryDue(notes, nextCount, USER_CADENCE, timeSinceLastSummary)
      updatedSummary == IF summaryDue /\ shouldUpdateSummary
                        THEN normalizeSummary(current.profile_summary, notes)
                        ELSE current.profile_summary
      updatedLastSummaryAt == IF summaryDue THEN t ELSE current.last_summary_at
  IN [d EXCEPT !.user_settings =
        Upsert(@, a.userId, [memory_enabled |-> current.memory_enabled,
                             profile_summary |-> updatedSummary,
                             message_count |-> nextCount,
                             last_summary_at |-> updatedLastSummaryAt])]

upsertGuildUserStmtOverwriting(d, guildId, userId, displayName, t, joinedAt) ==
  [d EXCEPT !.guild_users =
     Upsert(@, <<guildId, userId>>, [display_name |-> displayName,
                                     last_seen_at |-> t,
                                     joined_at |-> joinedAt])]

upsertGuildUserStmt(d, guildId, userId, displayName, t, joinedAt) ==
  LET key == <<guildId, userId>>
      joined == IF key \in DOMAIN d.guild_users /\ d.guild_users[key].joined_at # 0
                THEN d.guild_users[key].joined_at
                ELSE joinedAt
  IN [d EXCEPT !.guild_users =
        Upsert(@, key, [display_name |-> displayName,
                        last_seen_at |-> t,
                        joined_at |-> joined])]

upsertGuildUserStep(d, a, t) ==
  IF a.guildId # NoGuild /\ a.displayName # ""
  THEN upsertGuildUserStmt(d, a.guildId, a.userId, a.displayName, t, 0)
  ELSE d

upsertChannelProfileStep(d, a, t) ==
  IF a.channelId = "" THEN d
  ELSE
  LET notes == extractSummaryNotes(a.content)
      channelProfile == getChannelProfile(d, a.channelId, a.guildId)
      channelCount == channelProfile.message_count + 1
      channelTimeSinceLastSummary == t - channelProfile.last_summary_at
      channelShouldUpdateSummary == ShouldUpdateSummary(notes, channelTimeSinceLastSummary)
      channelSummaryDue ==
        SummaryDue(notes, channelCount, USER_CADENCE, channelTimeSinceLastSummary)
      channelSummary == IF channelSummaryDue /\ channelShouldUpdateSummary
                        THEN normalizeSummary(channelProfile.summary, notes)
                        ELSE channelProfile.summary
      channelLastSummaryAt == IF channelSummaryDue THEN t
                              ELSE channelProfile.last_summary_at
  IN [d EXCEPT !.channel_profiles =
        Upsert(@, a.channelId, [guild_id |-> a.guildId,
                                summary |-> channelSummary,
                                message_count |-> channelCount,
                                last_summary_at |-> channelLastSummaryAt])]

upsertGuildProfileStep(d, a, t) ==
  IF a.guildId = NoGuild THEN d
  ELSE
  LET notes == extractSummaryNotes(a.content)
      guildProfile == getGuildProfile(d, a.guildId)
      guildCount == guildProfile.message_count + 1
      guildTimeSinceLastSummary == t - guildProfile.last_summary_at
      guildShouldUpdateSummary == ShouldUpdateSummary(notes, guildTimeSinceLastSummary)
      guildSummaryDue ==
        SummaryDue(notes, guildCount, GUILD_CADENCE, guildTimeSinceLastSummary)
      guildSummary == IF guildSummaryDue /\ guildShouldUpdateSummary
                      THEN normalizeSummary(guildProfile.summary, notes)
                      ELSE guildProfile.summary
      guildLastSummaryAt == IF guildSummaryDue THEN t
                            ELSE guildProfile.last_summary_at
  IN [d EXCEPT !.guild_profiles =
        Upsert(@, a.guildId, [summary |-> guildSummary,
                              message_count |-> guildCount,
                              last_summary_at |-> guildLastSummaryAt])]

\* The store after the first k statements of the body have run.
recordUserMessageBody(d, a, t, k) ==
  LET s1 == IF k >= 1 THEN insertMessageStmt(d, a, t) ELSE d
      s2 == IF k >= 2 THEN upsertSettingsStep(s1, a, t) ELSE s1
      s3 == IF k >= 3 THEN upsertGuildUserStep(s2, a, t) ELSE s2
      s4 == IF k >= 4 THEN upsertChannelProfileStep(s3, a, t) ELSE s3
      s5 == IF k >= 5 THEN upsertGuildProfileStep(s4, a, t) ELSE s4
  IN s5

\* Where a storage failure is injected, and how many statements completed
\* before it.
FailPoints == {"afterInsert", "afterSettings", "afterGuildUser", "afterChannel", "atGuild"}
StatementsBefore(failPoint) ==
  CASE failPoint = "none" -> 5
    [] failPoint = "afterInsert" -> 1
    [] failPoint = "afterSettings" -> 2
    [] failPoint = "afterGuildUser" -> 3
    [] failPoint = "afterChannel" -> 4
    [] failPoint = "atGuild" -> 4

\* db.transaction(fn): commit when fn returns, roll back when it throws.
dbTransactionLeak(before, after, threw) == after

dbTransaction(before, after, threw) == IF threw THEN before ELSE after

recordUserMessage(d, a, t, failPoint) ==
  dbTransaction(d, recordUserMessageBody(d, a, t, StatementsBefore(failPoint)),
                failPoint # "none")

----------------------------------------------------------------------------
(* Specification of the store: the exported operations of memory.js called *)
(* directly, with storage failures injected into recordUserMessage.        *)

\* A store left by an earlier run of the process (data.db is persistent):
\* u1, channel c1 and guild g1 have been recording note-free messages
\* shortly before the start, and the log has since been cleared by
\* forgetUser / resetChannelMemory calls that leave these counters alone.
AgedStore ==
  [ EmptyStore EXCEPT
      !.user_settings = Upsert(@, "u1",
          [memory_enabled |-> 1, profile_summary |-> <<>>,
           message_count |-> USER_CADENCE - 1, last_summary_at |-> T0 - 1]),
      !.channel_profiles = Upsert(@, "c1",
          [guild_id |-> "g1", summary |-> <<>>,
           message_count |-> USER_CADENCE - 1, last_summary_at |-> T0 - 1]),
      !.guild_profiles = Upsert(@, "g1",
          [summary |-> <<>>,
           message_count |-> GUILD_CADENCE - 1, last_summary_at |-> T0 - 1]),
      !.channel_allowlist = Upsert(@, "c1", 1) ]

StartStores == {EmptyStore, AgedStore}

NoOp == [op |-> "other", failPoint |-> "none"]

InitMem ==
  /\ db \in StartStores
  /\ now = T0
  /\ state = EmptyTable
  /\ inMemoryTurns = EmptyTable
  /\ tasks = EmptyBag
  /\ runs = EmptyTable
  /\ lastOp = NoOp
  /\ editState = EmptyTable
  /\ messages = EmptyTable

CanRecord(d) == d.last_id < MaxLog

RecordArgs(userId, channelId, content, displayName) ==
  [userId |-> userId, channelId |-> channelId, guildId |-> ChannelGuild(channelId),
   content |-> content, displayName |-> displayName]

RecordUserMessage(a, failPoint) ==
  /\ CanRecord(db)
  /\ db' = recordUserMessage(db, a, now, failPoint)
  /\ lastOp' = [op |-> "recordUserMessage", failPoint |-> failPoint]
  /\ UNCHANGED <<now, state, inMemoryTurns, tasks, runs, editState, messages>>

\* The instants at which the store specification observes the clock: the
\* start and each later 24h boundary, and the millisecond after each.
MemInstants ==
  {T0 + (i \div 2) * TWENTY_FOUR_HOURS_MS + (i % 2) : i \in 0..MaxMemInstants}

TickMem(t) ==
  /\ t > now
  /\ now' = t
  /\ lastOp' = NoOp
  /\ UNCHANGED <<db, state, inMemoryTurns, tasks, runs, editState, messages>>

\* The calls of the store specification: u1 writes in guild channel c1 and
\* in a direct conversation with a display name, u2 writes in c1 without one.
MemContents ==
  { <<"hello">>,
    <<"my name is", "Bob">>,
    <<"my name is", "Bob2">>,
    <<"call me", "Robert", ".", "i like", "pizza">> }

MemCalls ==
  {RecordArgs("u1", "c1", m, "nick") : m \in MemContents}
  \cup {RecordArgs("u1", "dm1", <<"my name is", "Bob">>, "nick"),
        RecordArgs("u2", "c1", <<"hello">>, "")}

NextMem ==
  \/ \E a \in MemCalls : RecordUserMessage(a, "none")
  \/ \E a \in MemCalls, f \in FailPoints : RecordUserMessage(a, f)
  \/ \E t \in MemInstants : TickMem(t)

SpecMem == InitMem /\ [][NextMem]_vars

----------------------------------------------------------------------------
(* Specification of the other exported operations of memory.js, called      *)
(* directly: the allowlist toggles, forgetUser, the two resets and          *)
(* upsertGuildUser, with recordUserMessage filling the store.  The three    *)
(* destructive operations run their statements one after the other, outside *)
(* any transaction, and a storage failure can stop them after any number of *)
(* statements.  runs keeps, per channel, its most recent allowlist toggle.  *)

\* The statements a call completes: all of them, or those before the one
\* at which a storage failure ends the call.
StatementsCompleted(failPoint, all) ==
  CASE failPoint = "none" -> all
    [] failPoint = "atStatement1" -> 0
    [] failPoint = "atStatement2" -> 1
    [] failPoint = "atStatement3" -> 2
    [] failPoint = "atStatement4" -> 3

\* forgetUser stopped by a failure after `completed` of its 2 statements
\* (the read of the settings in between changes nothing).
forgetUserUpTo(d, userId, completed) ==
  IF completed = 0 THEN d
  ELSE IF completed = 1 THEN deleteUserMessagesStmt(d, userId)
  ELSE forgetUserStmts(d, userId)

\* resetChannelMemory stopped after `completed` of its 2 statements.
resetChannelMemoryUpTo(d, channelId, completed) ==
  LET d1 == [d EXCEPT !.user_messages = SelectSeq(@, LAMBDA r : r.channel_id # channelId)]
  IN IF completed = 0 THEN d
     ELSE IF completed = 1 THEN d1
     ELSE resetChannelMemoryStmts(d, channelId)

\* resetGuildMemory stopped after `completed` of its 4 statements.
resetGuildMemoryUpTo(d, guildId, completed) ==
  LET d1 == [d EXCEPT !.user_messages = SelectSeq(@, LAMBDA r : r.guild_id # guildId)]
      d2 == [d1 EXCEPT !.guild_profiles = DeleteKeys(@, {guildId})]
      d3 == [d2 EXCEPT !.channel_profiles =
                          DeleteKeys(@, {c \in DOMAIN @ : @[c].guild_id = guildId})]
  IN IF completed = 0 THEN d
     ELSE IF completed = 1 THEN d1
     ELSE IF completed = 2 THEN d2
     ELSE IF completed = 3 THEN d3
     ELSE resetGuildMemoryStmts(d, guildId)

\* upsertGuildUser: the join time defaults to the current time.
upsertGuildUser(d, guildId, userId, displayName, joinedAt, t) ==
  upsertGuildUserStmt(d, guildId, userId, displayName, t,
                      IF joinedAt = 0 THEN t ELSE joinedAt)

AllowChannelCalled(channelId) ==
  /\ db' = allowChannelStmt(db, channelId)
  /\ runs' = Upsert(runs, channelId, "allowChannel")
  /\ lastOp' = [op |-> "allowChannel", failPoint |-> "none", target |-> channelId]
  /\ UNCHANGED <<now, state, inMemoryTurns, tasks, editState, messages>>

DenyChannelCalled(channelId) ==
  /\ db' = denyChannelStmt(db, channelId)
  /\ runs' = Upsert(runs, channelId, "denyChannel")
  /\ lastOp' = [op |-> "denyChannel", failPoint |-> "none", target |-> channelId]
  /\ UNCHANGED <<now, state, inMemoryTurns, tasks, editState, messages>>

\* failPoint is "none", or the statement at which a storage failure ends
\* the call.
ForgetUser(userId, failPoint) ==
  /\ db' = forgetUserUpTo(db, userId, StatementsCompleted(failPoint, 2))
  /\ lastOp' = [op |-> "forgetUser", failPoint |-> failPoint, target |-> userId]
  /\ UNCHANGED <<now, state, inMemoryTurns, tasks, runs, editState, messages>>

ResetChannelMemory(channelId, failPoint) ==
  /\ db' = resetChannelMemoryUpTo(db, channelId, StatementsCompleted(failPoint, 2))
  /\ lastOp' = [op |-> "resetChannelMemory", failPoint |-> failPoint, target |-> channelId]
  /\ UNCHANGED <<now, state, inMemoryTurns, tasks, runs, editState, messages>>

ResetGuildMemory(guildId, failPoint) ==
  /\ db' = resetGuildMemoryUpTo(db, guildId, StatementsCompleted(failPoint, 4))
  /\ lastOp' = [op |-> "resetGuildMemory", failPoint |-> failPoint, target |-> guildId]
  /\ UNCHANGED <<now, state, inMemoryTurns, tasks, runs, editState, messages>>

\* setUserMemory(userId, enabled), called by /memory on and /memory off.
SetUserMemoryCalled(userId, enabled) ==
  /\ db' = setUserMemoryStmt(db, userId, enabled)
  /\ lastOp' = [op |-> "setUserMemory", failPoint |-> "none", target |-> userId]
  /\ UNCHANGED <<now, state, inMemoryTurns, tasks, runs, editState, messages>>

UpsertGuildUser(guildId, userId, displayName, joinedAt) ==
  /\ db' = upsertGuildUser(db, guildId, userId, displayName, joinedAt, now)
  /\ lastOp' = [op |-> "upsertGuildUser", failPoint |-> "none", target |-> userId]
  /\ UNCHANGED <<now, state, inMemoryTurns, tasks, runs, editState, messages>>

\* u1 writes in c1 with a display name, u2 writes in c2 without one.
OpsCalls ==
  { RecordArgs("u1", "c1", <<"hello">>, "nick"),
    RecordArgs("u2", "c2", <<"hello">>, "") }

\* The clock readings after the start.
OpsInstants == {T0 + 1}

\* The store is empty, or u1 has turned memory off.
InitOps ==
  /\ db \in {EmptyStore, setUserMemoryStmt(EmptyStore, "u1", FALSE)}
  /\ now = T0
  /\ state = EmptyTable
  /\ inMemoryTurns = EmptyTable
  /\ tasks = EmptyBag
  /\ runs = EmptyTable
  /\ lastOp = NoOp
  /\ editState = EmptyTable
  /\ messages = EmptyTable

NextOps ==
  \/ \E a \in OpsCalls : RecordUserMessage(a, "none")
  \/ \E u \in Users, f \in {"none", "atStatement1", "atStatement2"} : ForgetUser(u, f)
  \/ \E f \in {"none", "atStatement2"} : ResetChannelMemory("c1", f)
  \/ \E g \in Guilds, f \in {"none", "atStatement3", "atStatement4"} :
       ResetGuildMemory(g, f)
  \/ \E j \in {0, T0 - 1} : UpsertGuildUser("g1", "u1", "nick", j)
  \/ \E e \in BOOLEAN : SetUserMemoryCalled("u1", e)
  \/ \E t \in OpsInstants : TickMem(t)

SpecOps == InitOps /\ [][NextOps]_vars

\* The allowlist toggles, on a store that is empty or was left by an
\* earlier run of the process, while u1 writes in c1.
InitAllow ==
  /\ db \in StartStores
  /\ now = T0
  /\ state = EmptyTable
  /\ inMemoryTurns = EmptyTable
  /\ tasks = EmptyBag
  /\ runs = [c \in DOMAIN db.channel_allowlist |->
               IF db.channel_allowlist[c] = 1 THEN "allowChannel" ELSE "denyChannel"]
  /\ lastOp = NoOp
  /\ editState = EmptyTable
  /\ messages = EmptyTable

NextAllow ==
  \/ \E c \in GuildChannels : AllowChannelCalled(c)
  \/ \E c \in GuildChannels : DenyChannelCalled(c)
  \/ RecordUserMessage(RecordArgs("u1", "c1", <<"hello">>, "nick"), "none")
  \/ ResetChannelMemory("c1", "none")

SpecAllow == InitAllow /\ [][NextAllow]_vars

----------------------------------------------------------------------------
(* rateLimit.js *)

STOP_SPAMMING == "-# stop spamming twin im only replying once"
SLOW_DOWN == "-# chill for 3s then try again"

getEntry(st, userId) ==
  IF userId \in DOMAIN st THEN st[userId]
  ELSE [lastAt |-> 0, lastPrompt |-> "", duplicateCount |-> 0]

duplicateExhaustedLate(entry) == entry.duplicateCount >= 2

duplicateExhausted(entry) == entry.duplicateCount >= 1

rejectDuplicatePostponing(entry) ==
  [entry EXCEPT !.duplicateCount = @ + 1, !.lastAt = @ + COOLDOWN_MS]

rejectDuplicate(entry) == [entry EXCEPT !.duplicateCount = @ + 1]

allowDuplicateKeepingLastAt(entry, t) == [entry EXCEPT !.duplicateCount = @ + 1]

allowDuplicate(entry, t) == [entry EXCEPT !.duplicateCount = @ + 1, !.lastAt = t]

acceptKeepingCount(entry, t, prompt) ==
  [entry EXCEPT !.lastAt = t, !.lastPrompt = prompt]

accept(entry, t, prompt) ==
  [lastAt |-> t, lastPrompt |-> prompt, duplicateCount |-> 0]

\* The result of checkRateLimit(userId, prompt) at time t: the new Map and
\* the returned {allow, message}.
checkRateLimit(st, userId, prompt, t) ==
  LET entry == getEntry(st, userId)
  IN IF t - entry.lastAt < COOLDOWN_MS
     THEN IF prompt = entry.lastPrompt
          THEN IF duplicateExhausted(entry)
               THEN [state |-> Upsert(st, userId, rejectDuplicate(entry)),
                     allow |-> FALSE, message |-> STOP_SPAMMING]
               ELSE [state |-> Upsert(st, userId, allowDuplicate(entry, t)),
                     allow |-> TRUE, message |-> ""]
          ELSE [state |-> Upsert(st, userId, entry),
                allow |-> FALSE, message |-> SLOW_DOWN]
     ELSE [state |-> Upsert(st, userId, accept(entry, t, prompt)),
           allow |-> TRUE, message |-> ""]

\* History of the allowed requests of each identity: the prompt key of the
\* current run, the time of its last allowed request and how many requests
\* of the run were allowed.  A run is continued by an allowed request with
\* the same key less than COOLDOWN_MS after the last allowed one.
ObserveRun(rs, userId, prompt, t, allow) ==
  IF ~allow THEN rs
  ELSE IF userId \in DOMAIN rs /\ rs[userId].key = prompt
          /\ t - rs[userId].lastAllowedAt < COOLDOWN_MS
       THEN Upsert(rs, userId, [key |-> prompt, lastAllowedAt |-> t,
                                allowed |-> rs[userId].allowed + 1])
       ELSE Upsert(rs, userId, [key |-> prompt, lastAllowedAt |-> t, allowed |-> 1])

----------------------------------------------------------------------------
(* Specification of the rate limiter: checkRateLimit called directly *)

RateKeys == {"p", "q"}

InitRate ==
  /\ db = EmptyStore
  /\ now = T0
  /\ state = EmptyTable
  /\ inMemoryTurns = EmptyTable
  /\ tasks = EmptyBag
  /\ runs = EmptyTable
  /\ lastOp = NoOp
  /\ editState = EmptyTable
  /\ messages = EmptyTable

CheckRateLimit(userId, prompt) ==
  LET r == checkRateLimit(state, userId, prompt, now)
  IN /\ getEntry(state, userId).duplicateCount < MaxDuplicates
     /\ state' = r.state
     /\ runs' = ObserveRun(runs, userId, prompt, now, r.allow)
     /\ lastOp' = [op |-> "checkRateLimit", userId |-> userId, prompt |-> prompt,
                   allow |-> r.allow, message |-> r.message]
     /\ UNCHANGED <<db, now, inMemoryTurns, tasks, editState, messages>>

\* The instants at which the rate-limiter specification observes the clock:
\* the start of each cooldown window, its middle and its last millisecond.
RateInstants ==
  {T0 + w * COOLDOWN_MS + e : w \in 0..MaxRateWindows, e \in {0, 1500, 2999}}

TickRate(t) ==
  /\ t > now
  /\ now' = t
  /\ lastOp' = NoOp
  /\ UNCHANGED <<db, state, inMemoryTurns, tasks, runs, editState, messages>>

NextRate ==
  \/ \E u \in Users, p \in RateKeys : CheckRateLimit(u, p)
  \/ \E t \in RateInstants : TickRate(t)

SpecRate == InitRate /\ [][NextRate]_vars

----------------------------------------------------------------------------
(* Specification of the growth of the rate-limiter state: identities are     *)
(* numbered from 1, and the Map is empty or already holds the entry of each  *)
(* of the first IdentityCap identities, who all asked "p" at the start.      *)

ONE_HOUR_MS == 60 * 60 * 1000
IdentityCap == 10 * 1000

FullRateState ==
  [userId \in 1..IdentityCap |-> accept(getEntry(EmptyTable, userId), T0, "p")]

\* The identities that call checkRateLimit: one of the full state, and one
\* more.  They ask "p" again.
GrowthCallers == {1, IdentityCap + 1}

\* The clock readings: inside the cooldown, and just over one hour later.
GrowthInstants == {T0 + 1500, T0 + ONE_HOUR_MS + 1}

InitGrowth ==
  /\ db = EmptyStore
  /\ now = T0
  /\ state \in {EmptyTable, FullRateState}
  /\ inMemoryTurns = EmptyTable
  /\ tasks = EmptyBag
  /\ runs = EmptyTable
  /\ lastOp = NoOp
  /\ editState = EmptyTable
  /\ messages = EmptyTable

NextGrowth ==
  \/ \E u \in GrowthCallers : CheckRateLimit(u, "p")
  \/ \E t \in GrowthInstants : TickRate(t)

SpecGrowth == InitGrowth /\ [][NextGrowth]_vars

----------------------------------------------------------------------------
(* handlePrompt.js, and the handlers that call it.  Messages and questions *)
(* are text only: no attachments, no replied-to message.                   *)

MENTION == "<@bot>"
REFUSAL == "nah, not touching that."
BannedTerms == {"nazi", "kkk", "faggot", "tranny", "nigger", "cuntface"}

stripMention(content) == SelectSeq(content, LAMBDA w : w # MENTION)

containsHateSpeech(text) == \E i \in 1..Len(text) : text[i] \in BannedTerms

getTurns(turns, userId) == IF userId \in DOMAIN turns THEN turns[userId] ELSE <<>>

LastKeepsOldest(s, n) == IF Len(s) <= n THEN s ELSE SubSeq(s, 1, n)

Last(s, n) == IF Len(s) <= n THEN s ELSE SubSeq(s, Len(s) - n + 1, Len(s))

addTurn(turns, userId, role, content) ==
  Upsert(turns, userId,
         Last(Append(getTurns(turns, userId), [role |-> role, content |-> content]),
              MAX_TURNS))

\* The store reads of handlePrompt that allowMemory gates (lines 61-70).
ContextReads(t) ==
  {"getProfileSummary", "getRecentMessages", "getRecentChannelMessages",
   "getChannelSummary"}
  \cup (IF t.guildId # NoGuild
        THEN {"getGuildSummary", "getGuildUserNames", "getServerContext", "getUserContext"}
        ELSE {})

\* A handlePrompt call that has not started: the arguments its caller
\* passes, and what the call has done so far (nothing).  (The variant is a
\* caller that never passes alreadyRecorded.)
NewTaskNeverRecorded(userId, channelId, prompt, allowMemory, displayName) ==
  [userId |-> userId, channelId |-> channelId, guildId |-> ChannelGuild(channelId),
   prompt |-> prompt, allowMemory |-> allowMemory, alreadyRecorded |-> FALSE,
   displayName |-> displayName, replyContextText |-> <<>>,
   pc |-> "entry", storeOps |-> {}, completions |-> 0,
   userContent |-> <<>>, recentTurns |-> <<>>, replyContext |-> <<>>]

NewTask(userId, channelId, prompt, allowMemory, displayName) ==
  [userId |-> userId, channelId |-> channelId, guildId |-> ChannelGuild(channelId),
   prompt |-> prompt, allowMemory |-> allowMemory, alreadyRecorded |-> allowMemory,
   displayName |-> displayName, replyContextText |-> <<>>,
   pc |-> "entry", storeOps |-> {}, completions |-> 0,
   userContent |-> <<>>, recentTurns |-> <<>>, replyContext |-> <<>>]

\* rateKey of handlePrompt: the prompt and the reply context joined by "|".
rateKey(prompt, replyContextText) == prompt \o <<"|">> \o replyContextText

\* memoryContent of handlePrompt, for a request without attachments.
memoryContent(prompt, replyContextText) ==
  IF prompt = <<>> /\ replyContextText # <<>> THEN <<"User replied to a message.">>
  ELSE prompt

\* effectivePrompt of handlePrompt, for a request without attachments.
effectivePrompt(prompt, replyContextText) ==
  IF prompt # <<>> THEN prompt
  ELSE IF "video" \in Range(replyContextText) THEN <<"User referenced a video.">>
  ELSE IF replyContextText # <<>> THEN <<"Following up on the replied message.">>
  ELSE prompt

\* The pre-LLM content policy check of handlePrompt (line 31).
bannedRequestPromptOnly(t) == containsHateSpeech(t.prompt)

bannedRequest(t) ==
  containsHateSpeech(t.prompt) \/ containsHateSpeech(t.replyContextText)

\* handlePrompt from its entry to the completion request (lines 24-131).
\* The call ends at once (pc "done") when it only replies with a rejection;
\* otherwise it waits for the completion (pc "llm").  The typing indicator
\* awaited at line 114 changes nothing and is part of that wait.
handlePromptStart(t, d, st, turns, clock) ==
  LET rate == checkRateLimit(st, t.userId, rateKey(t.prompt, t.replyContextText), clock)
      settings == getUserSettings(d, t.userId)
      records == settings.memory_enabled = 1 /\ t.allowMemory /\ ~t.alreadyRecorded
      d1 == IF records
            THEN recordUserMessage(d,
                   [userId |-> t.userId, channelId |-> t.channelId, guildId |-> t.guildId,
                    content |-> memoryContent(t.prompt, t.replyContextText),
                    displayName |-> t.displayName], clock, "none")
            ELSE d
      ops == {"getUserSettings"}
             \cup (IF records THEN {"recordUserMessage"} ELSE {})
             \cup (IF t.allowMemory THEN ContextReads(t) ELSE {})
      effective == effectivePrompt(t.prompt, t.replyContextText)
      pushed == IF effective = <<>> THEN <<"...">> ELSE effective
      turns1 == IF t.allowMemory THEN addTurn(turns, t.userId, "user", pushed) ELSE turns
  IN IF ~rate.allow \/ bannedRequest(t)
     THEN [db |-> d, state |-> rate.state, turns |-> turns,
           reply |-> IF ~rate.allow THEN rate.message ELSE REFUSAL,
           task |-> [t EXCEPT !.pc = "done"]]
     ELSE [db |-> d1, state |-> rate.state, turns |-> turns1,
           reply |-> "",
           task |-> [t EXCEPT !.pc = "llm",
                              !.storeOps = ops,
                              !.completions = @ + 1,
                              !.userContent = effective,
                              !.replyContext = t.replyContextText,
                              !.recentTurns = IF t.allowMemory
                                              THEN getTurns(turns1, t.userId)
                                              ELSE <<>>]]

\* handlePrompt after getLLMResponse has resolved (lines 132-135).
handlePromptResume(t, turns, response) ==
  IF t.allowMemory THEN addTurn(turns, t.userId, "assistant", <<response>>) ELSE turns

\* allowMemoryContext of handleMessage and handleMessageUpdate.
messageAllowsMemory(d, userId, channelId) ==
  LET isDirect == ChannelGuild(channelId) = NoGuild
      memoryChannel == isDirect \/ isChannelAllowed(d, channelId)
  IN memoryChannel /\ getUserSettings(d, userId).memory_enabled = 1

\* allowMemoryContext of executeAskCommand.
askAllowsMemory(d, userId, channelId) ==
  LET memoryChannel == IF channelId \in DMChannels THEN TRUE
                       ELSE isChannelAllowed(d, channelId)
  IN memoryChannel /\ getUserSettings(d, userId).memory_enabled = 1

----------------------------------------------------------------------------
(* Specification of the handlers.  An inbound message or /ask runs its     *)
(* handler up to the completion request; the handlePrompt calls waiting    *)
(* for their completion are the in-flight tasks (a bag: their order is     *)
(* immaterial), resumed in any order; /memory and the allowlist commands   *)
(* run in between.                                                         *)

\* A user who was summarised just before the start, in an allowlisted channel.
RecentStore ==
  [EmptyStore EXCEPT
     !.user_settings = Upsert(EmptyTable, "u1",
        [memory_enabled |-> 1, profile_summary |-> <<>>,
         message_count |-> 1, last_summary_at |-> T0 - 1]),
     !.channel_allowlist = Upsert(EmptyTable, "c1", 1)]

BotStartStores == {EmptyStore, RecentStore, AgedStore}

InitBot ==
  /\ db \in BotStartStores
  /\ now = T0
  /\ state = EmptyTable
  /\ inMemoryTurns = EmptyTable
  /\ tasks = EmptyBag
  /\ runs = EmptyTable
  /\ lastOp = NoOp
  /\ editState = EmptyTable
  /\ messages = EmptyTable

One(t) == SetToBag({t})

TurnsBelowCap(userId) == Len(getTurns(inMemoryTurns, userId)) < MaxBotTurns

\* handleMessage.  content is message.content; the message mentions the bot
\* when it holds the mention token.  For a text message that replies to
\* nothing and asks the intent router nothing, the awaits before
\* handlePrompt settle without I/O, so no other handler runs in between and
\* the step runs handlePrompt to the completion request as well.
HandleMessage(userId, channelId, content, displayName) ==
  LET isDirect == ChannelGuild(channelId) = NoGuild
      allowMemoryContext == messageAllowsMemory(db, userId, channelId)
      records == allowMemoryContext /\ content # <<>>
      mentioned == MENTION \in Range(content)
      prompt == IF isDirect THEN content
                ELSE IF mentioned THEN stripMention(content) ELSE content
      calls == (isDirect \/ mentioned) /\ prompt # <<>>
  IN /\ records => db.last_id < MaxBotLog
     /\ \E recorded \in {IF records
                         THEN recordUserMessage(db, RecordArgs(userId, channelId, content,
                                                               displayName), now, "none")
                         ELSE db} :
          IF calls
          THEN /\ BagCardinality(tasks) < MaxTasks
               /\ getEntry(state, userId).duplicateCount < MaxDuplicates
               /\ allowMemoryContext => TurnsBelowCap(userId)
               /\ \E r \in {handlePromptStart(NewTask(userId, channelId, prompt,
                                                      allowMemoryContext, displayName),
                                              recorded, state, inMemoryTurns, now)} :
                    /\ db' = r.db
                    /\ state' = r.state
                    /\ inMemoryTurns' = r.turns
                    /\ tasks' = IF r.task.pc = "done" THEN tasks ELSE tasks (+) One(r.task)
          ELSE /\ db' = recorded
               /\ UNCHANGED <<state, inMemoryTurns, tasks>>
     /\ UNCHANGED <<now, runs, editState, messages, lastOp>>

\* handleMessageUpdate for an edit of a message the bot has not replied to:
\* its id is not in editState, so shouldHandleEdit returns false and the
\* handler returns after the recording prefix.
HandleMessageUpdate(userId, channelId, content, displayName) ==
  LET allowMemoryContext == messageAllowsMemory(db, userId, channelId)
      records == allowMemoryContext /\ content # <<>>
  IN /\ records => db.last_id < MaxBotLog
     /\ db' = IF records
              THEN recordUserMessage(db, RecordArgs(userId, channelId, content, displayName),
                                     now, "none")
              ELSE db
     /\ UNCHANGED <<now, state, inMemoryTurns, tasks, runs, editState, messages, lastOp>>

\* executeAskCommand: it reaches handlePrompt without suspending, so the
\* step runs handlePrompt to the completion request as well.
ExecuteAskCommand(userId, channelId, question, displayName) ==
  LET allowMemoryContext == askAllowsMemory(db, userId, channelId)
      records == allowMemoryContext /\ question # <<>>
  IN /\ records => db.last_id < MaxBotLog
     /\ BagCardinality(tasks) < MaxTasks
     /\ getEntry(state, userId).duplicateCount < MaxDuplicates
     /\ allowMemoryContext => TurnsBelowCap(userId)
     /\ IF containsHateSpeech(question)
        THEN UNCHANGED <<db, state, inMemoryTurns, tasks>>
        ELSE \E recorded \in {IF records
                              THEN recordUserMessage(db, RecordArgs(userId, channelId, question,
                                                                    displayName), now, "none")
                              ELSE db} :
             \E r \in {handlePromptStart(NewTask(userId, channelId, question,
                                                 allowMemoryContext, displayName),
                                         recorded, state, inMemoryTurns, now)} :
               /\ db' = r.db
               /\ state' = r.state
               /\ inMemoryTurns' = r.turns
               /\ tasks' = IF r.task.pc = "done" THEN tasks ELSE tasks (+) One(r.task)
     /\ UNCHANGED <<now, runs, editState, messages, lastOp>>

\* getLLMResponse resolves; handlePrompt caches the answer, replies and returns.
CompletionReturns(t, response) ==
  /\ BagIn(t, tasks)
  /\ t.pc = "llm"
  /\ inMemoryTurns' = handlePromptResume(t, inMemoryTurns, response)
  /\ tasks' = tasks (-) One(t)
  /\ lastOp' = NoOp
  /\ UNCHANGED <<db, now, state, runs, editState, messages>>

\* /memory on and /memory off
SetUserMemory(userId, enabled) ==
  /\ db' = setUserMemoryStmt(db, userId, enabled)
  /\ UNCHANGED <<now, state, inMemoryTurns, tasks, runs, editState, messages, lastOp>>

\* /memory-allow and /memory-deny
AllowChannel(channelId) ==
  /\ db' = allowChannelStmt(db, channelId)
  /\ UNCHANGED <<now, state, inMemoryTurns, tasks, runs, editState, messages, lastOp>>

DenyChannel(channelId) ==
  /\ db' = denyChannelStmt(db, channelId)
  /\ UNCHANGED <<now, state, inMemoryTurns, tasks, runs, editState, messages, lastOp>>

\* The clock readings after the start: one cooldown later.
BotInstants == {T0 + COOLDOWN_MS}

TickBot(t) ==
  /\ t > now
  /\ now' = t
  /\ lastOp' = NoOp
  /\ UNCHANGED <<db, state, inMemoryTurns, tasks, runs, editState, messages>>

BotMessages ==
  { <<"u1", "c1", <<MENTION, "my name is", "Alex">>>>,
    <<"u1", "c1", <<"my name is", "Alex", "from", "work">>>>,
    <<"u1", "dm1", <<"hello">>>>,
    <<"u2", "c1", <<"hello">>>> }

BotEdits ==
  { <<"u1", "c1", <<"hello">>>> }

BotQuestions ==
  { <<"u1", "c1", <<"hello">>>>,
    <<"u1", "c1", <<"kkk">>>> }

NextBot ==
  \/ \E m \in BotMessages : HandleMessage(m[1], m[2], m[3], "nick")
  \/ \E m \in BotEdits : HandleMessageUpdate(m[1], m[2], m[3], "nick")
  \/ \E q \in BotQuestions : ExecuteAskCommand(q[1], q[2], q[3], "nick")
  \/ \E t \in BagToSet(tasks) : CompletionReturns(t, "answer")
  \/ \E e \in BOOLEAN : SetUserMemory("u1", e)
  \/ AllowChannel("c1")
  \/ DenyChannel("c1")
  \/ \E t \in BotInstants : TickBot(t)

SpecBot == InitBot /\ [][NextBot]_vars

----------------------------------------------------------------------------
(* Specification of handlePrompt alone: it is called with every            *)
(* combination of arguments below, whatever its callers pass.              *)

PromptCalls ==
  { <<prompt, replyContextText, allowMemory, alreadyRecorded>> :
      prompt \in {<<"hello">>, <<"kkk">>, <<>>},
      replyContextText \in {<<>>, <<"Reply context from", "bob", ":", "kkk">>},
      allowMemory \in BOOLEAN, alreadyRecorded \in BOOLEAN }

\* handlePrompt from its entry to the completion request, or to its return
\* when it only replies with a rejection.
HandlePrompt(userId, channelId, prompt, replyContextText, allowMemory, alreadyRecorded) ==
  LET t == [NewTask(userId, channelId, prompt, allowMemory, "nick")
              EXCEPT !.replyContextText = replyContextText,
                     !.alreadyRecorded = alreadyRecorded]
  IN /\ prompt # <<>> \/ replyContextText # <<>>
     /\ (allowMemory /\ ~alreadyRecorded) => db.last_id < MaxBotLog
     /\ BagCardinality(tasks) < MaxTasks
     /\ getEntry(state, userId).duplicateCount < MaxDuplicates
     /\ allowMemory => TurnsBelowCap(userId)
     /\ \E r \in {handlePromptStart(t, db, state, inMemoryTurns, now)} :
          /\ db' = r.db
          /\ state' = r.state
          /\ inMemoryTurns' = r.turns
          /\ tasks' = IF r.task.pc = "done" THEN tasks ELSE tasks (+) One(r.task)
          /\ lastOp' = [op |-> "handlePrompt", failPoint |-> "none",
                        call |-> t, reply |-> r.reply]
     /\ UNCHANGED <<now, runs, editState, messages>>

NextPrompt ==
  \/ \E c \in PromptCalls : HandlePrompt("u1", "c1", c[1], c[2], c[3], c[4])
  \/ \E t \in BagToSet(tasks) : CompletionReturns(t, "answer")
  \/ \E t \in BotInstants : TickBot(t)

SpecPrompt == InitBot /\ [][NextPrompt]_vars

\* The completion client settles every request (with an answer or with its
\* fallback text), and the event loop then resumes the handler.
ResumeHandler == \E t \in BagToSet(tasks) : CompletionReturns(t, "answer")

SpecBotLive == SpecBot /\ WF_vars(ResumeHandler)

----------------------------------------------------------------------------
(* llm.js: callOnce and getLLMResponse *)

FALLBACK_ERROR_LINE == "cant answer rn bro too busy gooning (grok api error)"
VISION_MESSAGE ==
  "image input needs a vision-capable model. set GROK_VISION_MODEL or use a multimodal GROK_MODEL."
IDK == "idk tbh"
COMPLETION_TEXT == "a completion"

\* What the endpoint does with one request:
\*   network             fetch rejects
\*   status_vision       non-2xx, the body names image/vision/multimodal/unsupported
\*   status_other        non-2xx, any other body
\*   status_unreadable   non-2xx, reading the body fails
\*   bad_json            2xx, the body is not JSON
\*   no_content          2xx, JSON without choices[0].message.content, or blank text
\*   bad_content         2xx, JSON whose content is not a string
\*   completion          2xx, JSON with a completion text
Outcomes ==
  {"network", "status_vision", "status_other", "status_unreadable",
   "bad_json", "no_content", "bad_content", "completion"}

\* callOnce: what it returns or throws for an outcome of its request.
callOnce(outcome, imageInputs) ==
  CASE outcome = "completion" -> [threw |-> FALSE, code |-> "", value |-> COMPLETION_TEXT]
    [] outcome = "no_content" -> [threw |-> FALSE, code |-> "", value |-> IDK]
    [] outcome = "status_vision" /\ imageInputs ->
         [threw |-> TRUE, code |-> "VISION_UNSUPPORTED", value |-> ""]
    [] OTHER -> [threw |-> TRUE, code |-> "", value |-> ""]

isVisionUnsupportedNever(err) == FALSE

isVisionUnsupported(err) == err.code = "VISION_UNSUPPORTED"

\* A getLLMResponse call that has sent its first request.
NewCall(imageInputs, t) ==
  [imageInputs |-> imageInputs, pc |-> "attempt", sentAt |-> <<t>>,
   outcomes |-> <<>>, failedAt |-> 0, result |-> ""]

\* The catch block of the first attempt retries; the one of the retry does not.
retriesAfterRetry(call) == TRUE

retries(call) == Len(call.sentAt) = 1

\* getLLMResponse when the request in flight settles with an outcome: it
\* resolves, or it starts the delay before the retry.
attemptSettled(call, outcome, t) ==
  LET r == callOnce(outcome, call.imageInputs)
      seen == [call EXCEPT !.outcomes = Append(@, outcome)]
  IN IF ~r.threw THEN [seen EXCEPT !.pc = "resolved", !.result = r.value]
     ELSE IF isVisionUnsupported(r) THEN [seen EXCEPT !.pc = "resolved", !.result = VISION_MESSAGE]
     ELSE IF retries(call) THEN [seen EXCEPT !.pc = "delay", !.failedAt = t]
     ELSE [seen EXCEPT !.pc = "resolved", !.result = FALLBACK_ERROR_LINE]

\* The timer of delay(300) has fired.
delayElapsedAtOnce(call, t) == TRUE

delayElapsed(call, t) == t - call.failedAt >= RETRY_DELAY_MS

\* The retry request is sent.
retrySent(call, t) == [call EXCEPT !.pc = "attempt", !.sentAt = Append(@, t)]

----------------------------------------------------------------------------
(* Specification of the completion client: getLLMResponse calls in flight  *)
(* are the tasks; the endpoint settles each request with any outcome.      *)

GetLLMResponse(imageInputs) ==
  /\ BagCardinality(tasks) < MaxTasks
  /\ tasks' = tasks (+) One(NewCall(imageInputs, now))
  /\ lastOp' = NoOp
  /\ UNCHANGED <<db, now, state, inMemoryTurns, runs, editState, messages>>

AttemptSettles(call, outcome) ==
  /\ BagIn(call, tasks)
  /\ call.pc = "attempt"
  /\ tasks' = (tasks (-) One(call)) (+) One(attemptSettled(call, outcome, now))
  /\ lastOp' = NoOp
  /\ UNCHANGED <<db, now, state, inMemoryTurns, runs, editState, messages>>

DelayElapses(call) ==
  /\ BagIn(call, tasks)
  /\ call.pc = "delay"
  /\ delayElapsed(call, now)
  /\ tasks' = (tasks (-) One(call)) (+) One(retrySent(call, now))
  /\ lastOp' = NoOp
  /\ UNCHANGED <<db, now, state, inMemoryTurns, runs, editState, messages>>

\* The caller takes the answer.
ResponseTaken(call) ==
  /\ BagIn(call, tasks)
  /\ call.pc = "resolved"
  /\ tasks' = tasks (-) One(call)
  /\ lastOp' = NoOp
  /\ UNCHANGED <<db, now, state, inMemoryTurns, runs, editState, messages>>

\* Clock readings around the retry delay.
LLMInstants == {T0 + RETRY_DELAY_MS - 1, T0 + RETRY_DELAY_MS, T0 + RETRY_DELAY_MS + RETRY_DELAY_MS}

InitLLM ==
  /\ db = EmptyStore
  /\ now = T0
  /\ state = EmptyTable
  /\ inMemoryTurns = EmptyTable
  /\ tasks = EmptyBag
  /\ runs = EmptyTable
  /\ lastOp = NoOp
  /\ editState = EmptyTable
  /\ messages = EmptyTable

NextLLM ==
  \/ \E imageInputs \in BOOLEAN : GetLLMResponse(imageInputs)
  \/ \E call \in BagToSet(tasks), outcome \in Outcomes : AttemptSettles(call, outcome)
  \/ \E call \in BagToSet(tasks) : DelayElapses(call)
  \/ \E call \in BagToSet(tasks) : ResponseTaken(call)
  \/ \E t \in LLMInstants : TickBot(t)

SpecLLM == InitLLM /\ [][NextLLM]_vars

----------------------------------------------------------------------------
(* editSync.js: the edit tracking, and handleMessage and handleMessageUpdate *)
(* with the replies they deliver.  messages holds every message of the      *)
(* conversation by id: the users' messages (their text is the handlers'      *)
(* argument and is left out), and the bot's replies with their text, the     *)
(* message they answer and the instant they were sent.                       *)

EDIT_WINDOW_MS == 60000
EDIT_THROTTLE_MS == 2000

NoReply == 0

cleanupExpiredEntriesKeepsAll(es, t) == es

cleanupExpiredEntries(es, t) ==
  [id \in {k \in DOMAIN es : ~(t - es[k].createdAt > EDIT_WINDOW_MS)} |-> es[id]]

trackReply(es, userMessageId, botReplyId, t) ==
  Upsert(cleanupExpiredEntries(es, t), userMessageId,
         [botReplyId |-> botReplyId, createdAt |-> t, lastEditAt |-> 0])

\* The two tests of shouldHandleEdit on the entry of a tracked message:
\* the edit window has passed, and the last accepted edit is too recent.
editExpiredNever(entry, t) == FALSE

editExpired(entry, t) == t - entry.createdAt > EDIT_WINDOW_MS

editThrottledNever(entry, t) == FALSE

editThrottled(entry, t) == t - entry.lastEditAt < EDIT_THROTTLE_MS

\* shouldHandleEdit: its result, and editState after the call.
shouldHandleEdit(es, userMessageId, t) ==
  IF userMessageId \notin DOMAIN es
    THEN [handle |-> FALSE, editState |-> es]
  ELSE IF editExpired(es[userMessageId], t)
    THEN [handle |-> FALSE, editState |-> es]
  ELSE IF editThrottled(es[userMessageId], t)
    THEN [handle |-> FALSE, editState |-> es]
  ELSE [handle |-> TRUE,
        editState |-> [es EXCEPT ![userMessageId].lastEditAt = t]]

getReplyIdAny(es, userMessageId) ==
  IF es = EmptyTable THEN NoReply
  ELSE es[CHOOSE k \in DOMAIN es : \A j \in DOMAIN es : k <= j].botReplyId

getReplyId(es, userMessageId) ==
  IF userMessageId \in DOMAIN es THEN es[userMessageId].botReplyId ELSE NoReply

\* The id the platform gives to the next message.
NextId == Cardinality(DOMAIN messages) + 1

UserMessageIds == {id \in DOMAIN messages : messages[id].author # "bot"}

\* A handlePrompt call in flight together with the reply function its
\* handler gave it: replyFn of handleMessage answers messageId with a new
\* message, replyFn of handleMessageUpdate edits the message replyId.
Pipeline(call, messageId, via, replyId, text) ==
  [call |-> call, messageId |-> messageId, via |-> via, replyId |-> replyId,
   text |-> text]

\* handleMessage for a new text message (an id the platform has not used).
MessageCreate(userId, channelId, content, displayName) ==
  LET id == NextId
      isDirect == ChannelGuild(channelId) = NoGuild
      allowMemoryContext == messageAllowsMemory(db, userId, channelId)
      records == allowMemoryContext /\ content # <<>>
      mentioned == MENTION \in Range(content)
      prompt == IF isDirect THEN content
                ELSE IF mentioned THEN stripMention(content) ELSE content
      calls == (isDirect \/ mentioned) /\ prompt # <<>>
  IN /\ Cardinality(UserMessageIds) < MaxMessages
     /\ records => db.last_id < MaxBotLog
     /\ messages' = Upsert(messages, id,
                           [author |-> userId, channelId |-> channelId,
                            content |-> <<>>, replyTo |-> NoReply, sentAt |-> now])
     /\ \E recorded \in {IF records
                         THEN recordUserMessage(db, RecordArgs(userId, channelId, content,
                                                               displayName), now, "none")
                         ELSE db} :
          IF calls
          THEN /\ BagCardinality(tasks) < MaxTasks
               /\ getEntry(state, userId).duplicateCount < MaxDuplicates
               /\ allowMemoryContext => TurnsBelowCap(userId)
               /\ \E r \in {handlePromptStart(NewTask(userId, channelId, prompt,
                                                      allowMemoryContext, displayName),
                                              recorded, state, inMemoryTurns, now)} :
                    /\ db' = r.db
                    /\ state' = r.state
                    /\ inMemoryTurns' = r.turns
                    /\ tasks' = tasks (+) One(Pipeline(r.task, id, "handleMessage",
                                                       NoReply, r.reply))
          ELSE /\ db' = recorded
               /\ UNCHANGED <<state, inMemoryTurns, tasks>>
     /\ lastOp' = NoOp
     /\ UNCHANGED <<now, runs, editState>>

\* handleMessageUpdate for an edit of the message id, whose text becomes
\* content.
MessageUpdate(id, content, displayName) ==
  LET userId == messages[id].author
      channelId == messages[id].channelId
      isDirect == ChannelGuild(channelId) = NoGuild
      allowMemoryContext == messageAllowsMemory(db, userId, channelId)
      records == allowMemoryContext /\ content # <<>>
      should == shouldHandleEdit(editState, id, now)
      mentioned == MENTION \in Range(content)
      prompt == IF isDirect THEN content ELSE stripMention(content)
      replyId == getReplyId(should.editState, id)
      calls == /\ should.handle
               /\ isDirect \/ mentioned
               /\ prompt # <<>>
               /\ replyId # NoReply
  IN /\ id \in UserMessageIds
     /\ records => db.last_id < MaxBotLog
     /\ editState' = should.editState
     /\ \E recorded \in {IF records
                         THEN recordUserMessage(db, RecordArgs(userId, channelId, content,
                                                               displayName), now, "none")
                         ELSE db} :
          IF calls
          THEN /\ BagCardinality(tasks) < MaxTasks
               /\ getEntry(state, userId).duplicateCount < MaxDuplicates
               /\ allowMemoryContext => TurnsBelowCap(userId)
               /\ \E r \in {handlePromptStart(NewTask(userId, channelId, prompt,
                                                      allowMemoryContext, displayName),
                                              recorded, state, inMemoryTurns, now)} :
                    /\ db' = r.db
                    /\ state' = r.state
                    /\ inMemoryTurns' = r.turns
                    /\ tasks' = tasks (+) One(Pipeline(r.task, id, "handleMessageUpdate",
                                                       replyId, r.reply))
          ELSE /\ db' = recorded
               /\ UNCHANGED <<state, inMemoryTurns, tasks>>
     /\ lastOp' = [op |-> "handleMessageUpdate", failPoint |-> "none", messageId |-> id,
                   handle |-> should.handle, calls |-> calls]
     /\ UNCHANGED <<now, runs, messages>>

\* getLLMResponse resolves for a pipeline: handlePrompt caches the answer
\* and calls its reply function with it.
PipelineAnswered(p, response) ==
  /\ BagIn(p, tasks)
  /\ p.call.pc = "llm"
  /\ inMemoryTurns' = handlePromptResume(p.call, inMemoryTurns, response)
  /\ tasks' = (tasks (-) One(p))
              (+) One([p EXCEPT !.call.pc = "done", !.text = response])
  /\ lastOp' = NoOp
  /\ UNCHANGED <<db, now, state, runs, editState, messages>>

\* The reply function of a pipeline settles.  replyFn of handleMessage sends
\* a new message and tracks it; replyFn of handleMessageUpdate fetches the
\* message replyId and edits it.  Either request can fail (ok is false),
\* and then nothing is sent, edited or tracked.
ReplyFn(p, ok) ==
  /\ BagIn(p, tasks)
  /\ p.call.pc = "done"
  /\ tasks' = tasks (-) One(p)
  /\ IF ~ok
     THEN UNCHANGED <<messages, editState>>
     ELSE IF p.via = "handleMessage"
     THEN /\ messages' = Upsert(messages, NextId,
                                [author |-> "bot", channelId |-> p.call.channelId,
                                 content |-> p.text, replyTo |-> p.messageId,
                                 sentAt |-> now])
          /\ editState' = trackReply(editState, p.messageId, NextId, now)
     ELSE /\ messages' = [messages EXCEPT ![p.replyId].content = p.text]
          /\ UNCHANGED editState
  /\ lastOp' = [op |-> "replyFn", failPoint |-> "none", messageId |-> p.messageId,
                via |-> p.via, ok |-> ok]
  /\ UNCHANGED <<db, now, state, inMemoryTurns, runs>>

\* The clock readings of the handlers' edit specification, counted from
\* the start: one throttle window later, and just after the edit window.
EditInstants == {T0 + EDIT_THROTTLE_MS, T0 + EDIT_WINDOW_MS + 1}

EditMessages ==
  { <<"u1", "c1", <<MENTION, "hello">>>> }

EditContents == { <<MENTION, "bye">> }

InitEdit ==
  /\ db = EmptyStore
  /\ now = T0
  /\ state = EmptyTable
  /\ inMemoryTurns = EmptyTable
  /\ tasks = EmptyBag
  /\ runs = EmptyTable
  /\ lastOp = NoOp
  /\ editState = EmptyTable
  /\ messages = EmptyTable

NextEdit ==
  \/ \E m \in EditMessages : MessageCreate(m[1], m[2], m[3], "nick")
  \/ \E id \in DOMAIN messages : \E c \in EditContents : MessageUpdate(id, c, "nick")
  \/ \E p \in BagToSet(tasks) : PipelineAnswered(p, "answer")
  \/ \E p \in BagToSet(tasks) : \E ok \in BOOLEAN : ReplyFn(p, ok)
  \/ \E t \in EditInstants : TickBot(t)

SpecEdit == InitEdit /\ [][NextEdit]_vars

----------------------------------------------------------------------------
(* Specification of the edit tracking alone: trackReply is called once per  *)
(* user message, when handleMessage has sent its reply, and shouldHandleEdit *)
(* is called for every edit.  runs keeps, per message, the instants of its   *)
(* accepted edits.                                                           *)

AcceptedEdits(id) == IF id \in DOMAIN runs THEN runs[id] ELSE <<>>

\* The reply to the message userMessageId has been sent: replyFn of
\* handleMessage tracks it.
TrackReply(userMessageId) ==
  /\ userMessageId \in UserMessageIds
  /\ \A r \in DOMAIN messages : messages[r].replyTo # userMessageId
  /\ messages' = Upsert(messages, NextId,
                        [author |-> "bot", channelId |-> messages[userMessageId].channelId,
                         content |-> "answer", replyTo |-> userMessageId, sentAt |-> now])
  /\ editState' = trackReply(editState, userMessageId, NextId, now)
  /\ lastOp' = NoOp
  /\ UNCHANGED <<db, now, state, inMemoryTurns, tasks, runs>>

ShouldHandleEdit(userMessageId) ==
  /\ userMessageId \in UserMessageIds
  /\ \E should \in {shouldHandleEdit(editState, userMessageId, now)} :
       /\ should.handle => Len(AcceptedEdits(userMessageId)) < MaxEdits
       /\ editState' = should.editState
       /\ runs' = IF should.handle
                  THEN Upsert(runs, userMessageId, Append(AcceptedEdits(userMessageId), now))
                  ELSE runs
       /\ lastOp' = [op |-> "shouldHandleEdit", failPoint |-> "none",
                     messageId |-> userMessageId, handle |-> should.handle]
  /\ UNCHANGED <<db, now, state, inMemoryTurns, tasks, messages>>

\* The clock readings of the edit-tracking specification, counted from the
\* start: inside the throttle window, at its end, and the last millisecond
\* of the edit window and the first one after it.
EditSyncInstants ==
  {T0 + 1000, T0 + EDIT_THROTTLE_MS, T0 + EDIT_WINDOW_MS, T0 + EDIT_WINDOW_MS + 1}

InitEditSync ==
  /\ db = EmptyStore
  /\ now = T0
  /\ state = EmptyTable
  /\ inMemoryTurns = EmptyTable
  /\ tasks = EmptyBag
  /\ runs = EmptyTable
  /\ lastOp = NoOp
  /\ editState = EmptyTable
  /\ messages = [id \in 1..MaxMessages |->
                   [author |-> "u1", channelId |-> "c1", content |-> <<>>,
                    replyTo |-> NoReply, sentAt |-> T0]]

NextEditSync ==
  \/ \E id \in UserMessageIds : TrackReply(id)
  \/ \E id \in DOMAIN messages : ShouldHandleEdit(id)
  \/ \E t \in EditSyncInstants : TickBot(t)

SpecEditSync == InitEditSync /\ [][NextEditSync]_vars

----------------------------------------------------------------------------
(* The short-term turn cache: inMemoryTurns is the Map that index.js         *)
(* creates and hands to the handlers, and addTurn is the only writer.  runs  *)
(* keeps, per identity, every turn added since the start, in order.          *)

TurnsAdded(userId) == IF userId \in DOMAIN runs THEN runs[userId] ELSE <<>>

AddTurn(userId, role, content) ==
  /\ Len(TurnsAdded(userId)) < MaxAdds
  /\ inMemoryTurns' = addTurn(inMemoryTurns, userId, role, content)
  /\ runs' = Upsert(runs, userId,
                    Append(TurnsAdded(userId), [role |-> role, content |-> content]))
  /\ lastOp' = [op |-> "addTurn", failPoint |-> "none", userId |-> userId]
  /\ UNCHANGED <<db, now, state, tasks, editState, messages>>

TurnInputs == { <<"user", <<"hello">>>>, <<"assistant", <<"answer">>>> }

InitTurns ==
  /\ db = EmptyStore
  /\ now = T0
  /\ state = EmptyTable
  /\ inMemoryTurns = EmptyTable
  /\ tasks = EmptyBag
  /\ runs = EmptyTable
  /\ lastOp = NoOp
  /\ editState = EmptyTable
  /\ messages = EmptyTable

NextTurns ==
  \E userId \in {"u1", "u2"} : \E turn \in TurnInputs : AddTurn(userId, turn[1], turn[2])

SpecTurns == InitTurns /\ [][NextTurns]_vars

\* A cache that holds one turn of each of MAX_IN_MEMORY_TURNS identities,
\* numbered from 1: that many users have asked one remembered question.
FullCache ==
  [userId \in 1..MAX_IN_MEMORY_TURNS |-> <<[role |-> "user", content |-> <<"hello">>]>>]

\* The identities that write to the cache in its specification: two of the
\* full cache, and one more.
CacheWriters == {1, 2, MAX_IN_MEMORY_TURNS + 1}

InitCache ==
  /\ db = EmptyStore
  /\ now = T0
  /\ state = EmptyTable
  /\ inMemoryTurns \in {EmptyTable, FullCache}
  /\ tasks = EmptyBag
  /\ runs = inMemoryTurns
  /\ lastOp = NoOp
  /\ editState = EmptyTable
  /\ messages = EmptyTable

NextCache ==
  \E userId \in CacheWriters : AddTurn(userId, "user", <<"hello">>)

SpecCache == InitCache /\ [][NextCache]_vars

----------------------------------------------------------------------------
(* Claims about the store *)

Summaries(d) ==
  {d.user_settings[u].profile_summary : u \in DOMAIN d.user_settings}
  \cup {d.channel_profiles[c].summary : c \in DOMAIN d.channel_profiles}
  \cup {d.guild_profiles[g].summary : g \in DOMAIN d.guild_profiles}

\* C1: a recordUserMessage call in which a storage failure is injected, at
\* whichever statement, leaves the whole store as it was before the call:
\* no row is added and no counter, summary or last_summary_at moves.
C1_RecordAllOrNothing ==
  [][(lastOp'.op = "recordUserMessage" /\ lastOp'.failPoint # "none") => db' = db]_vars

\* A failure at the guild-profile upsert of a call for a user and a channel
\* that already have counters, in a store that already holds a row.
C1_Witness ==
  /\ lastOp.op = "recordUserMessage"
  /\ lastOp.failPoint = "atGuild"
  /\ db.last_id > 0
  /\ "u1" \in DOMAIN db.user_settings

\* C2: every profile summary (user, channel, guild) holds at most one line
\* per label.
C2_OneLinePerLabel ==
  \A s \in Summaries(db) :
    \A i, j \in 1..Len(s) : s[i].label = s[j].label => i = j

\* C4: a committed recordUserMessage increments each scope's message_count
\* by exactly 1; it merges the notes into the scope's summary and sets
\* last_summary_at to the current time exactly when (a note was extracted
\* and the incremented count is a multiple of the cadence) or more than 24h
\* have passed since last_summary_at; otherwise both are left unchanged.
Gated(preCount, preSummary, preLast, postCount, postSummary, postLast, notes, cadence) ==
  LET due == (Len(notes) > 0 /\ (preCount + 1) % cadence = 0)
             \/ now - preLast > TWENTY_FOUR_HOURS_MS
  IN /\ postCount = preCount + 1
     /\ due => postLast = now /\ postSummary = normalizeSummary(preSummary, notes)
     /\ ~due => postLast = preLast /\ postSummary = preSummary

GatingOf(row) ==
  LET notes == extractSummaryNotes(row.content)
      u0 == getUserSettings(db, row.user_id)
      u1 == getUserSettings(db', row.user_id)
      c0 == getChannelProfile(db, row.channel_id, row.guild_id)
      c1 == getChannelProfile(db', row.channel_id, row.guild_id)
      g0 == getGuildProfile(db, row.guild_id)
      g1 == getGuildProfile(db', row.guild_id)
  IN /\ Gated(u0.message_count, u0.profile_summary, u0.last_summary_at,
              u1.message_count, u1.profile_summary, u1.last_summary_at,
              notes, USER_CADENCE)
     /\ Gated(c0.message_count, c0.summary, c0.last_summary_at,
              c1.message_count, c1.summary, c1.last_summary_at,
              notes, USER_CADENCE)
     /\ row.guild_id # NoGuild =>
          Gated(g0.message_count, g0.summary, g0.last_summary_at,
                g1.message_count, g1.summary, g1.last_summary_at,
                notes, GUILD_CADENCE)

\* The step is a recordUserMessage call that committed; its arguments are
\* those of the row it appended.
Committed == lastOp'.op = "recordUserMessage" /\ lastOp'.failPoint = "none"
NewRow == db'.user_messages[Len(db'.user_messages)]

C4_SummaryGating ==
  [][Committed => (db'.last_id = db.last_id + 1 /\ GatingOf(NewRow))]_vars

\* A merge that was due by cadence alone: the user's count has just reached
\* the cadence less than 24h after the previous refresh, and the note is in.
C4_Witness ==
  /\ lastOp.op = "recordUserMessage" /\ lastOp.failPoint = "none"
  /\ "u1" \in DOMAIN db.user_settings
  /\ db.user_settings["u1"].message_count = USER_CADENCE
  /\ db.user_settings["u1"].last_summary_at = now
  /\ now = T0
  /\ db.user_settings["u1"].profile_summary # <<>>
  /\ "g1" \in DOMAIN db.guild_profiles
  /\ db.guild_profiles["g1"].message_count = GUILD_CADENCE
  /\ db.guild_profiles["g1"].summary # <<>>

----------------------------------------------------------------------------
(* Claims about the rate limiter *)

Checked == lastOp'.op = "checkRateLimit"

\* The request of this step continues the identity's current run: same
\* prompt key, less than COOLDOWN_MS after the last allowed request.
ContinuesRun ==
  /\ lastOp'.userId \in DOMAIN runs
  /\ runs[lastOp'.userId].key = lastOp'.prompt
  /\ now - runs[lastOp'.userId].lastAllowedAt < COOLDOWN_MS

\* C5: in a run of requests with one prompt key, each less than 3s after
\* the last allowed one, the opener is allowed, the first duplicate is
\* allowed, and every further duplicate is rejected with the stop-spamming
\* message.
C5_OneRetryPerRun ==
  [][(Checked /\ ContinuesRun) =>
       /\ runs[lastOp'.userId].allowed = 1 => lastOp'.allow
       /\ runs[lastOp'.userId].allowed >= 2 =>
            (~lastOp'.allow /\ lastOp'.message = STOP_SPAMMING)
       /\ runs[lastOp'.userId].allowed <= 2]_vars

\* The third identical request of a run has just been rejected.
C5_Witness ==
  /\ lastOp.op = "checkRateLimit"
  /\ ~lastOp.allow /\ lastOp.message = STOP_SPAMMING
  /\ runs[lastOp.userId].allowed = 2
  /\ runs[lastOp.userId].key = lastOp.prompt
  /\ now - runs[lastOp.userId].lastAllowedAt < COOLDOWN_MS
  /\ state[lastOp.userId].duplicateCount = 2

\* C6: a request less than 3s after the identity's last allowed request and
\* with a prompt key other than the stored one is rejected with the
\* slow-down message.
C6_SlowDown ==
  [][(/\ Checked
      /\ lastOp'.userId \in DOMAIN runs
      /\ now - runs[lastOp'.userId].lastAllowedAt < COOLDOWN_MS
      /\ lastOp'.prompt # getEntry(state, lastOp'.userId).lastPrompt)
     => (~lastOp'.allow /\ lastOp'.message = SLOW_DOWN)]_vars

\* A different prompt has just been rejected less than 3s after the allowed
\* duplicate of a run, and 3s or more after the opener of that run.
C6_Witness ==
  /\ lastOp.op = "checkRateLimit"
  /\ ~lastOp.allow /\ lastOp.message = SLOW_DOWN
  /\ runs[lastOp.userId].allowed = 2
  /\ now - runs[lastOp.userId].lastAllowedAt < COOLDOWN_MS
  /\ now - (runs[lastOp.userId].lastAllowedAt - 1500) >= COOLDOWN_MS

\* C7: a request 3s or more after the recorded last-activity time, or from
\* an identity never seen, is allowed whatever its key and the duplicate
\* counter; it stores the time and the key and resets the counter to 0.
C7_AfterCooldown ==
  [][(/\ Checked
      /\ \/ lastOp'.userId \notin DOMAIN state
         \/ now - state[lastOp'.userId].lastAt >= COOLDOWN_MS)
     => /\ lastOp'.allow
        /\ state'[lastOp'.userId] =
             [lastAt |-> now, lastPrompt |-> lastOp'.prompt, duplicateCount |-> 0]]_vars

\* An identity whose duplicate counter had run up has been allowed again
\* after the cooldown, with a fresh entry.
C7_Witness ==
  /\ lastOp.op = "checkRateLimit" /\ lastOp.allow
  /\ state[lastOp.userId] =
       [lastAt |-> now, lastPrompt |-> lastOp.prompt, duplicateCount |-> 0]
  /\ runs[lastOp.userId].allowed = 1
  /\ now >= T0 + COOLDOWN_MS + 1500

----------------------------------------------------------------------------
(* Claims about the handlers *)

NameLine == [label |-> "Name", value |-> <<"Alex">>]

\* The first "my name is ..." of the text is "my name is Alex", and the name
\* is followed by the end of the text or by one of . ! ?
NameIsAlex(content) ==
  \E i \in 1..(Len(content) - 1) :
    /\ content[i] = "my name is" /\ content[i + 1] = "Alex"
    /\ i + 1 = Len(content) \/ content[i + 2] \in {".", "!", "?"}
    /\ \A j \in 1..(i - 1) :
         ~(content[j] = "my name is" /\ content[j + 1] \notin {".", "!", "?"})

MemoryEnabled(d, userId) ==
  userId \notin DOMAIN d.user_settings \/ d.user_settings[userId].memory_enabled = 1

EntryEnabled(d, channelId) ==
  channelId \in DOMAIN d.channel_allowlist /\ d.channel_allowlist[channelId] = 1

ProfileSummaryOf(d, userId) ==
  IF userId \in DOMAIN d.user_settings THEN d.user_settings[userId].profile_summary
  ELSE <<>>

\* A message of user u1 saying "my name is Alex", and nothing more before
\* the end of the sentence, has been recorded from a guild channel
\* (recorded: the channel was allowlisted and u1 enabled).
AlexSaidSo ==
  \E i \in 1..Len(db.user_messages) :
    /\ db.user_messages[i].user_id = "u1"
    /\ db.user_messages[i].guild_id # NoGuild
    /\ NameIsAlex(db.user_messages[i].content)

AlexRemembered == NameLine \in Range(ProfileSummaryOf(db, "u1"))

\* C3, as stated: once an enabled user has sent a message containing
\* "my name is Alex" in an allowlisted channel, whatever the user's
\* message_count and last_summary_at were, the user's profile_summary
\* eventually contains the line "Name: Alex".
C3_NameEventuallyRemembered == [](AlexSaidSo => <>AlexRemembered)

AppendsRow == db'.last_id = db.last_id + 1 /\ Len(db'.user_messages) = Len(db.user_messages) + 1

\* The user-scope merge is due for the row being appended.
MergeDueFor(row) ==
  LET before == getUserSettings(db, row.user_id)
  IN \/ now - before.last_summary_at > TWENTY_FOUR_HOURS_MS
     \/ (before.message_count + 1) % USER_CADENCE = 0

\* C3, amended: when an enabled user's message is recorded from an
\* allowlisted channel, its first "my name is ..." is "my name is Alex"
\* ending at the end of the text or at . ! ?, and the user-scope merge is due
\* (more than 24 h since last_summary_at, a never-summarised user included,
\* or the incremented message_count a multiple of 20), the profile_summary
\* contains the line "Name: Alex" as soon as the message is recorded.
C3_NameRememberedWhenDue ==
  [][(/\ AppendsRow
      /\ NewRow.guild_id # NoGuild
      /\ EntryEnabled(db, NewRow.channel_id)
      /\ MemoryEnabled(db, NewRow.user_id)
      /\ NameIsAlex(NewRow.content)
      /\ MergeDueFor(NewRow))
     => NameLine \in Range(ProfileSummaryOf(db', NewRow.user_id))]_vars

\* The mention "@Bot my name is Alex" of a never-summarised user has been
\* recorded from the allowlisted channel and the line is in the summary.
C3_Witness ==
  /\ Len(db.user_messages) = 1
  /\ db.user_messages[1].content = <<MENTION, "my name is", "Alex">>
  /\ db.user_messages[1].channel_id = "c1"
  /\ EntryEnabled(db, "c1")
  /\ db.user_settings["u1"].message_count = 1
  /\ AlexRemembered

ProfilesOf(d) == <<d.channel_profiles, d.guild_profiles, d.guild_users>>

UserMemoryOf(d, userId) ==
  LET row == getUserSettings(d, userId)
  IN <<row.message_count, row.profile_summary, row.last_summary_at>>

\* C8: a step appends a UserMessage of a guild channel only if the channel's
\* allowlist entry exists and is enabled when the step starts; a step that
\* appends nothing changes no user, channel or guild profile, so a message
\* in a channel that is absent from the allowlist or was last denied leaves
\* no trace; a row of a direct conversation needs no allowlist entry.
C8_AllowlistGatesRecording ==
  [][/\ db'.user_messages # db.user_messages
          => /\ AppendsRow
             /\ SubSeq(db'.user_messages, 1, Len(db.user_messages)) = db.user_messages
             /\ NewRow.guild_id # NoGuild => EntryEnabled(db, NewRow.channel_id)
             /\ NewRow.guild_id = NoGuild => NewRow.channel_id \in DMChannels
     /\ db'.user_messages = db.user_messages
          => /\ ProfilesOf(db') = ProfilesOf(db)
             /\ \A u \in Users : UserMemoryOf(db', u) = UserMemoryOf(db, u)]_vars

\* A mention handled in a channel whose entry was last denied: its prompt
\* is in flight without memory and nothing was persisted, although the
\* author has memory enabled.
C8_Witness ==
  /\ "c1" \in DOMAIN db.channel_allowlist /\ db.channel_allowlist["c1"] = 0
  /\ MemoryEnabled(db, "u1")
  /\ db.user_messages = <<>>
  /\ ProfilesOf(db) = ProfilesOf(EmptyStore)
  /\ \E t \in BagToSet(tasks) : t.channelId = "c1" /\ t.userId = "u1" /\ ~t.allowMemory

\* C9, as stated: while memory is disabled for u1 (setUserMemory(u1, false)
\* has completed and setUserMemory(u1, true) has not been called), no step
\* appends a UserMessage of u1, changes a message_count or summary of the
\* user, or of a channel or the guild other than by recording another
\* user's message, or adds a turn of u1 to the turn cache.
C9_DisabledUserLeavesNoTrace ==
  [][(~MemoryEnabled(db, "u1") /\ ~MemoryEnabled(db', "u1"))
     => /\ db'.user_messages # db.user_messages => (AppendsRow /\ NewRow.user_id # "u1")
        /\ db'.user_messages = db.user_messages => ProfilesOf(db') = ProfilesOf(db)
        /\ UserMemoryOf(db', "u1") = UserMemoryOf(db, "u1")
        /\ getTurns(inMemoryTurns', "u1") = getTurns(inMemoryTurns, "u1")]_vars

\* C10, as stated: a handlePrompt call with allowMemory = false that has
\* reached its completion request has made no call to the store, and has
\* issued one request, built from the literal content and no turns.
C10_NoStoreAccessWithoutMemory ==
  \A t \in BagToSet(tasks) :
    (~t.allowMemory /\ t.pc = "llm")
      => /\ t.storeOps = {}
         /\ t.completions = 1
         /\ t.userContent = t.prompt
         /\ t.recentTurns = <<>>

\* The prompt handleMessage passes to handlePrompt for the message a row
\* was recorded from.
PromptOfRow(row) ==
  IF row.guild_id = NoGuild THEN row.content
  ELSE SelectSeq(row.content, LAMBDA w : w # MENTION)

\* C11, as stated: a message whose request the rate limiter rejects is not
\* persisted.  Rows of direct messages and of mentions come from messages
\* that handleMessage passes to handlePrompt in the same step; whenever such
\* a row is appended, the rate limiter allows the request of its message.
C11_RateLimitedLeavesNoTrace ==
  [][(/\ AppendsRow
      /\ NewRow.guild_id = NoGuild \/ MENTION \in Range(NewRow.content))
     => checkRateLimit(state, NewRow.user_id, rateKey(PromptOfRow(NewRow), <<>>), now).allow]_vars

HandledPrompt == lastOp'.op = "handlePrompt"

\* The request just handled holds a banned term, in its prompt or in its
\* reply context (the terms are spelled out: the policy of index.js 378-384).
BannedCall ==
  LET terms == {"nazi", "kkk", "faggot", "tranny", "nigger", "cuntface"}
  IN \/ Range(lastOp'.call.prompt) \cap terms # {}
     \/ Range(lastOp'.call.replyContextText) \cap terms # {}

\* handlePrompt returned without a store access, a turn-cache update or a
\* completion request.
ShortCircuited ==
  /\ db' = db
  /\ inMemoryTurns' = inMemoryTurns
  /\ tasks' = tasks

\* No text sent to the completion client and no cached turn holds a banned term.
NoBannedDownstream ==
  LET terms == {"nazi", "kkk", "faggot", "tranny", "nigger", "cuntface"}
      clean(text) == Range(text) \cap terms = {}
  IN /\ \A t \in BagToSet(tasks) :
          /\ clean(t.userContent) /\ clean(t.replyContext)
          /\ \A i \in 1..Len(t.recentTurns) : clean(t.recentTurns[i].content)
     /\ \A u \in DOMAIN inMemoryTurns :
          \A i \in 1..Len(inMemoryTurns[u]) : clean(inMemoryTurns[u][i].content)

----------------------------------------------------------------------------
(* Claims about the completion client *)

Calls == BagToSet(tasks)

\* callOnce returned for this outcome of its request.
Answered(outcome) == outcome \in {"completion", "no_content"}

\* This outcome makes callOnce throw the vision-unsupported error: a non-2xx
\* status whose body names the capability, for a request that carries images.
VisionRefused(call, outcome) == outcome = "status_vision" /\ call.imageInputs

\* C13, as stated: a resolved getLLMResponse call holds a real completion,
\* the generic fallback line or the vision-capability message.  (That the
\* call resolves at all, whatever the two outcomes, is built into every
\* behaviour of the specification: no branch of the code leaves the promise
\* rejected.)
C13_CompletionOrFallback ==
  \A call \in Calls :
    call.pc = "resolved"
      => \/ call.result \in {FALLBACK_ERROR_LINE, VISION_MESSAGE}
         \/ /\ call.outcomes[Len(call.outcomes)] = "completion"
            /\ call.result = COMPLETION_TEXT

\* C14: a getLLMResponse call sends one or two requests, never a third; it
\* has sent exactly one when the first attempt returned, and when the first
\* attempt failed other than by vision-unsupported it resolves only after a
\* second request, sent at least 300 ms after the failure was caught.
C14_AtMostOneRetry ==
  \A call \in Calls :
    /\ Len(call.sentAt) \in {1, 2}
    /\ Len(call.outcomes) <= Len(call.sentAt)
    /\ (Len(call.outcomes) >= 1 /\ Answered(call.outcomes[1]))
         => (Len(call.sentAt) = 1 /\ call.pc = "resolved")
    /\ (/\ call.pc = "resolved"
        /\ ~Answered(call.outcomes[1])
        /\ ~VisionRefused(call, call.outcomes[1]))
         => /\ Len(call.sentAt) = 2
            /\ Len(call.outcomes) = 2
            /\ call.sentAt[2] - call.failedAt >= 300

\* A call whose first request met a network error and whose retry, sent
\* after the delay, brought the completion.
C14_Witness ==
  \E call \in Calls :
    /\ call.pc = "resolved"
    /\ call.outcomes = <<"network", "completion">>
    /\ Len(call.sentAt) = 2
    /\ call.result = COMPLETION_TEXT

\* C15: once an attempt of a call has failed with vision-unsupported, that
\* attempt is the call's last request and the call is resolved with the
\* vision-capability message, not with the generic fallback.
C15_VisionNotRetried ==
  \A call \in Calls :
    \A i \in 1..Len(call.outcomes) :
      VisionRefused(call, call.outcomes[i])
        => /\ i = Len(call.outcomes)
           /\ Len(call.sentAt) = i
           /\ call.pc = "resolved"
           /\ call.result = VISION_MESSAGE
           /\ call.result # FALLBACK_ERROR_LINE

\* A request with images refused at the first attempt for lack of vision
\* support: resolved with the message after a single request.
C15_Witness ==
  \E call \in Calls :
    /\ call.imageInputs
    /\ call.outcomes = <<"status_vision">>
    /\ Len(call.sentAt) = 1
    /\ call.pc = "resolved"
    /\ call.result = VISION_MESSAGE

----------------------------------------------------------------------------
(* Claims about edit tracking *)

\* The replies the bot sent to the message id.
RepliesTo(id) ==
  {r \in DOMAIN messages : messages[r].author = "bot" /\ messages[r].replyTo = id}

\* The step is a call of shouldHandleEdit for an edit of the message id.
EditOf(id) == lastOp'.op = "shouldHandleEdit" /\ lastOp'.messageId = id

\* C16: shouldHandleEdit returns false for an edit of a message whose reply
\* was never tracked and for an edit arriving more than 60 s after the reply
\* was sent and tracked, and returns true for the first edit arriving within
\* 60 s of the tracking.
C16_EditWindow ==
  [][\A id \in UserMessageIds : EditOf(id) =>
       /\ RepliesTo(id) = {} => ~lastOp'.handle
       /\ \A r \in RepliesTo(id) :
            /\ now - messages[r].sentAt > EDIT_WINDOW_MS => ~lastOp'.handle
            /\ (now - messages[r].sentAt <= EDIT_WINDOW_MS /\ AcceptedEdits(id) = <<>>)
                 => lastOp'.handle]_vars

\* A first edit accepted in the last millisecond of the window.
C16_Witness ==
  /\ lastOp.op = "shouldHandleEdit"
  /\ lastOp.handle
  /\ Len(AcceptedEdits(lastOp.messageId)) = 1
  /\ \E r \in RepliesTo(lastOp.messageId) : now - messages[r].sentAt = EDIT_WINDOW_MS

ThrottleApart ==
  \A id \in DOMAIN runs : \A i, j \in 1..Len(runs[id]) :
    i < j => runs[id][j] - runs[id][i] >= EDIT_THROTTLE_MS

\* C17: any two accepted edits of one message are at least 2 s apart, and a
\* suppressed edit leaves the edit tracking, the throttle timestamp
\* included, as it was.
C17_EditThrottle ==
  [][/\ ThrottleApart'
     /\ \A id \in UserMessageIds :
          (EditOf(id) /\ ~lastOp'.handle) => editState' = editState]_vars

\* A second edit accepted exactly one throttle window after the first one,
\* with an edit suppressed in between.
C17_Witness ==
  \E id \in DOMAIN runs :
    /\ Len(runs[id]) = 2
    /\ runs[id][2] - runs[id][1] = EDIT_THROTTLE_MS
    /\ lastOp.op = "shouldHandleEdit" /\ lastOp.messageId = id /\ ~lastOp.handle

\* The step is a call of handleMessageUpdate for an edit of the message id.
UpdateOf(id) == lastOp'.op = "handleMessageUpdate" /\ lastOp'.messageId = id

\* The step is the reply function of a pipeline that handleMessageUpdate
\* started, settling with success.
EditReplyDelivered ==
  lastOp'.op = "replyFn" /\ lastOp'.via = "handleMessageUpdate" /\ lastOp'.ok

----------------------------------------------------------------------------
(* Claims about the turn cache *)

Min(a, b) == IF a <= b THEN a ELSE b

\* C19: after any sequence of addTurn calls for an identity, its stored
\* sequence has at most 6 turns and is made of the last min(n, 6) of the n
\* turns added for it, in the order they were added.
C19_LastSixTurns ==
  \A userId \in DOMAIN runs :
    LET added == runs[userId]
        stored == getTurns(inMemoryTurns, userId)
    IN /\ Len(stored) <= 6
       /\ Len(stored) = Min(Len(added), 6)
       /\ \A i \in 1..Len(stored) : stored[i] = added[Len(added) - Len(stored) + i]

\* Seven turns were added for an identity: the first one has been dropped.
C19_Witness ==
  /\ lastOp.op = "addTurn"
  /\ Len(TurnsAdded("u1")) = 7
  /\ TurnsAdded("u1")[1] # TurnsAdded("u1")[7]
  /\ Len(TurnsAdded("u2")) = 1

\* C20: the turn cache never holds more identities than its configured
\* maximum.
C20_CacheCapped == Cardinality(DOMAIN inMemoryTurns) <= MAX_IN_MEMORY_TURNS

----------------------------------------------------------------------------
(* Claims about the growth of the rate-limiter state *)

\* The entries whose identity last had a request allowed more than one hour ago.
IdleEntries == {u \in DOMAIN state : now - state[u].lastAt > ONE_HOUR_MS}

\* C21: the rate-limiter state is bounded: it keeps no entry idle for more
\* than one hour, or it holds at most 10,000 identities.
C21_RateStateBounded ==
  IdleEntries = {} \/ Cardinality(DOMAIN state) <= IdentityCap

----------------------------------------------------------------------------
(* Claims about the other operations of the store *)

\* C22: the allowlist toggles are idempotent and the last one wins:
\* isChannelAllowed of a channel is true exactly when the channel's most
\* recent toggle is allowChannel (false when it was never toggled),
\* allowChannel after denyChannel leaves it true, a second allowChannel
\* changes nothing, and a toggle leaves every other channel's answer as it was.
C22_AllowlistLastWriterWins ==
  [][/\ \A c \in Channels :
          isChannelAllowed(db', c) <=> (c \in DOMAIN runs' /\ runs'[c] = "allowChannel")
     /\ \A c \in Channels :
          /\ isChannelAllowed(allowChannelStmt(denyChannelStmt(db, c), c), c)
          /\ allowChannelStmt(allowChannelStmt(db, c), c) = allowChannelStmt(db, c)
     /\ (lastOp'.op \in {"allowChannel", "denyChannel"}) =>
          \A c \in Channels \ {lastOp'.target} :
            isChannelAllowed(db', c) = isChannelAllowed(db, c)]_vars

\* allowChannel of c1 has just run with both channels allowed, in a store
\* that holds recorded messages.
C22_Witness ==
  /\ lastOp.op = "allowChannel" /\ lastOp.target = "c1"
  /\ isChannelAllowed(db, "c1") /\ isChannelAllowed(db, "c2")
  /\ db.user_messages # <<>>
  /\ db.last_id = MaxLog

\* The step is a call of the operation op on target that ran to its end.
Completed(op, target) ==
  lastOp'.op = op /\ lastOp'.failPoint = "none" /\ lastOp'.target = target

\* C23: forgetUser(U) deletes every message of U and no other, empties U's
\* profile summary, sets U's message count and last summary time to 0, and
\* leaves U's memory_enabled flag as it was (enabled for a user without a
\* settings row).
C23_ForgetKeepsEnabledFlag ==
  [][\A u \in Users : Completed("forgetUser", u) =>
       /\ db'.user_messages = SelectSeq(db.user_messages, LAMBDA r : r.user_id # u)
       /\ u \in DOMAIN db'.user_settings
       /\ db'.user_settings[u].profile_summary = <<>>
       /\ db'.user_settings[u].message_count = 0
       /\ db'.user_settings[u].last_summary_at = 0
       /\ db'.user_settings[u].memory_enabled = getUserSettings(db, u).memory_enabled]_vars

\* u1, who has turned memory off, was forgotten: of the two messages
\* recorded only u2's is left, and u1's memory is still off.
C23_Witness ==
  /\ lastOp.op = "forgetUser" /\ lastOp.failPoint = "none" /\ lastOp.target = "u1"
  /\ db.last_id = 2
  /\ Len(db.user_messages) = 1 /\ db.user_messages[1].user_id = "u2"
  /\ db.user_settings["u1"].memory_enabled = 0

\* C24: forgetUser, resetChannelMemory and resetGuildMemory are atomic: a
\* call that a storage failure ends leaves the store as it was.
C24_DestructiveOpsAtomic ==
  [][(/\ lastOp'.op \in {"forgetUser", "resetChannelMemory", "resetGuildMemory"}
      /\ lastOp'.failPoint # "none") => db' = db]_vars

\* The step is an upsert of the user-name cache: a recordUserMessage or an
\* upsertGuildUser call that ran to its end.
CacheUpsert ==
  lastOp'.op \in {"recordUserMessage", "upsertGuildUser"} /\ lastOp'.failPoint = "none"

\* C30: an upsert never changes a non-zero joined_at of a (guild, user)
\* entry; recordUserMessage creates an entry with joined_at 0 and leaves a
\* joined_at of 0 at 0, and upsertGuildUser sets a joined_at of 0 to the join
\* time it is given, or to the current time.
C30_JoinedAtSetOnce ==
  [][CacheUpsert =>
       /\ DOMAIN db.guild_users \subseteq DOMAIN db'.guild_users
       /\ \A k \in DOMAIN db.guild_users :
            db.guild_users[k].joined_at # 0 =>
              db'.guild_users[k].joined_at = db.guild_users[k].joined_at
       /\ \A k \in DOMAIN db'.guild_users :
            LET before == IF k \in DOMAIN db.guild_users
                          THEN db.guild_users[k].joined_at ELSE 0
            IN (before = 0 /\ (k \notin DOMAIN db.guild_users
                               \/ db'.guild_users[k] # db.guild_users[k])) =>
                 IF lastOp'.op = "recordUserMessage"
                 THEN db'.guild_users[k].joined_at = 0
                 ELSE db'.guild_users[k].joined_at \in {T0 - 1, now}]_vars

\* An entry that joined before the start was seen again after it, by a
\* recordUserMessage call: its join time is the one first given.
C30_Witness ==
  /\ lastOp.op = "recordUserMessage" /\ lastOp.failPoint = "none"
  /\ <<"g1", "u1">> \in DOMAIN db.guild_users
  /\ db.guild_users[<<"g1", "u1">>].joined_at = T0 - 1
  /\ db.guild_users[<<"g1", "u1">>].last_seen_at = T0 + 1

----------------------------------------------------------------------------
(* Interleaved event handlers.  Each messageCreate event runs               *)
(* handleMessage; the handler records the message synchronously and then   *)
(* awaits the completion, and other handlers run during that wait.  runs   *)
(* keeps the store at the start and the recordUserMessage calls completed  *)
(* since.                                                                  *)

CallsFor(calls, key, field) ==
  Len(SelectSeq(calls, LAMBDA a : a[field] = key))

\* handleMessage as in HandleMessage, with the completed call noted.
HandleMessageInterleaved(userId, channelId, content, displayName) ==
  LET isDirect == ChannelGuild(channelId) = NoGuild
      allowMemoryContext == messageAllowsMemory(db, userId, channelId)
      records == allowMemoryContext /\ content # <<>>
      mentioned == MENTION \in Range(content)
      prompt == IF isDirect THEN content
                ELSE IF mentioned THEN stripMention(content) ELSE content
      calls == (isDirect \/ mentioned) /\ prompt # <<>>
      a == RecordArgs(userId, channelId, content, displayName)
  IN /\ records => CanRecord(db)
     /\ \E recorded \in {IF records THEN recordUserMessage(db, a, now, "none") ELSE db} :
          IF calls
          THEN /\ BagCardinality(tasks) < MaxInFlight
               /\ getEntry(state, userId).duplicateCount < MaxDuplicates
               /\ allowMemoryContext => TurnsBelowCap(userId)
               /\ \E r \in {handlePromptStart(NewTask(userId, channelId, prompt,
                                                      allowMemoryContext, displayName),
                                              recorded, state, inMemoryTurns, now)} :
                    /\ db' = r.db
                    /\ state' = r.state
                    /\ inMemoryTurns' = r.turns
                    /\ tasks' = IF r.task.pc = "done" THEN tasks ELSE tasks (+) One(r.task)
          ELSE /\ db' = recorded
               /\ UNCHANGED <<state, inMemoryTurns, tasks>>
     /\ runs' = IF records THEN [runs EXCEPT !.calls = Append(@, a)] ELSE runs
     /\ lastOp' = NoOp
     /\ UNCHANGED <<now, editState, messages>>

InterleavedMessages ==
  { <<"u1", "c1", <<MENTION, "hello">>>>,
    <<"u2", "c1", <<MENTION, "hello">>>>,
    <<"u1", "dm1", <<"hello">>>> }

InitInterleaved ==
  /\ db \in {EmptyStore, RecentStore}
  /\ now = T0
  /\ state = EmptyTable
  /\ inMemoryTurns = EmptyTable
  /\ tasks = EmptyBag
  /\ runs = [start |-> db, calls |-> <<>>]
  /\ lastOp = NoOp
  /\ editState = EmptyTable
  /\ messages = EmptyTable

NextInterleaved ==
  \/ \E m \in InterleavedMessages : HandleMessageInterleaved(m[1], m[2], m[3], "nick")
  \/ \E t \in BagToSet(tasks) : CompletionReturns(t, "answer")
  \/ \E t \in BotInstants : TickBot(t)

SpecInterleaved == InitInterleaved /\ [][NextInterleaved]_vars

----------------------------------------------------------------------------
(* Claims about interleaved recordUserMessage calls                        *)

RowsFor(d, key, field) ==
  Len(SelectSeq(d.user_messages, LAMBDA r : r[field] = key))

\* C25: whatever the interleaving of the handlers, after N completed
\* recordUserMessage calls for a user the user's message_count is N higher
\* than at the start and the log holds N more rows of the user; the same
\* holds for the counter of each channel and of each guild.
C25_NoLostIncrement ==
  /\ \A u \in Users :
       /\ getUserSettings(db, u).message_count =
            getUserSettings(runs.start, u).message_count + CallsFor(runs.calls, u, "userId")
       /\ RowsFor(db, u, "user_id") =
            RowsFor(runs.start, u, "user_id") + CallsFor(runs.calls, u, "userId")
  /\ \A c \in Channels :
       /\ getChannelProfile(db, c, ChannelGuild(c)).message_count =
            getChannelProfile(runs.start, c, ChannelGuild(c)).message_count
            + CallsFor(runs.calls, c, "channelId")
       /\ RowsFor(db, c, "channel_id") =
            RowsFor(runs.start, c, "channel_id") + CallsFor(runs.calls, c, "channelId")
  /\ \A g \in Guilds :
       /\ getGuildProfile(db, g).message_count =
            getGuildProfile(runs.start, g).message_count + CallsFor(runs.calls, g, "guildId")
       /\ RowsFor(db, g, "guild_id") =
            RowsFor(runs.start, g, "guild_id") + CallsFor(runs.calls, g, "guildId")

\* Two handlers are waiting for their completions, and both recorded a
\* message of u1 before they suspended.
C25_Witness ==
  /\ BagCardinality(tasks) = 2
  /\ CallsFor(runs.calls, "u1", "userId") = 2
  /\ getUserSettings(db, "u1").message_count =
       getUserSettings(runs.start, "u1").message_count + 2

----------------------------------------------------------------------------
(* handlePrompt with a completion client that may fail: getLLMResponse     *)
(* resolves to a completion, to its fallback line or to the vision         *)
(* message (llm.js 282-311), and handlePrompt goes on at line 132.         *)

Responses == {COMPLETION_TEXT, FALLBACK_ERROR_LINE, VISION_MESSAGE}

GetLLMResponseResolves(t, response) ==
  /\ BagIn(t, tasks)
  /\ t.pc = "llm"
  /\ inMemoryTurns' = handlePromptResume(t, inMemoryTurns, response)
  /\ tasks' = tasks (-) One(t)
  /\ lastOp' = [op |-> "getLLMResponse", failPoint |-> "none",
                call |-> t, reply |-> response]
  /\ UNCHANGED <<db, now, state, runs, editState, messages>>

NextReply ==
  \/ \E c \in PromptCalls : HandlePrompt("u1", "c1", c[1], c[2], c[3], c[4])
  \/ \E t \in BagToSet(tasks), response \in Responses : GetLLMResponseResolves(t, response)
  \/ \E t \in BotInstants : TickBot(t)

SpecReply == InitBot /\ [][NextReply]_vars

----------------------------------------------------------------------------
(* Claims about the assistant turn                                          *)

\* The step appended an assistant turn to the cache.
AssistantTurnAdded ==
  /\ inMemoryTurns' # inMemoryTurns
  /\ \E u \in DOMAIN inMemoryTurns' :
       /\ inMemoryTurns'[u] # getTurns(inMemoryTurns, u)
       /\ inMemoryTurns'[u][Len(inMemoryTurns'[u])].role = "assistant"

\* C26: handlePrompt adds the response to the turn cache as an assistant
\* turn only when memory is allowed and the completion succeeded: no
\* assistant turn is added for the fallback line or the vision message.
C26_AssistantTurnOnlyOnSuccess ==
  [][(lastOp'.op = "getLLMResponse" /\ AssistantTurnAdded) =>
       /\ lastOp'.call.allowMemory
       /\ lastOp'.reply \notin {FALLBACK_ERROR_LINE, VISION_MESSAGE}]_vars

----------------------------------------------------------------------------
(* services/intentRouter.js: normalize, fuzzyScore and findRoleByName.     *)
(* A string is the sequence of its characters; "e_acute" is the letter e   *)
(* with an acute accent, which NFD splits into "e" and "acute_mark".       *)

toLowerCase(str) ==
  [i \in 1..Len(str) |-> CASE str[i] = "A" -> "a"
                           [] str[i] = "M" -> "m"
                           [] str[i] = "E_acute" -> "e_acute"
                           [] OTHER -> str[i]]

RECURSIVE trimStart(_)
trimStart(str) ==
  IF str # <<>> /\ Head(str) = " " THEN trimStart(Tail(str)) ELSE str

RECURSIVE trimEnd(_)
trimEnd(str) ==
  IF str # <<>> /\ str[Len(str)] = " " THEN trimEnd(SubSeq(str, 1, Len(str) - 1)) ELSE str

trim(str) == trimEnd(trimStart(str))

RECURSIVE NFD(_)
NFD(str) ==
  IF str = <<>> THEN <<>>
  ELSE (IF Head(str) = "e_acute" THEN <<"e", "acute_mark">> ELSE <<Head(str)>>)
       \o NFD(Tail(str))

stripMarks(str) == SelectSeq(str, LAMBDA c : c # "acute_mark")

normalize(str) == stripMarks(NFD(trim(toLowerCase(str))))

includes(t, s) ==
  \E i \in 0..(Len(t) - Len(s)) : SubSeq(t, i + 1, i + Len(s)) = s

\* The loop of fuzzyScore: the search index and the score after the scan.
RECURSIVE fuzzyScan(_, _, _, _, _)
fuzzyScan(s, t, i, sIdx, score) ==
  IF i > Len(t) \/ sIdx > Len(s) THEN [sIdx |-> sIdx, score |-> score]
  ELSE IF t[i] = s[sIdx] THEN fuzzyScan(s, t, i + 1, sIdx + 1, score + 1)
  ELSE fuzzyScan(s, t, i + 1, sIdx, score)

fuzzyScore(search, target) ==
  LET s == normalize(search)
      t == normalize(target)
      scan == fuzzyScan(s, t, 1, 1, 0)
  IN IF includes(t, s) THEN 100
     ELSE IF scan.sIdx = Len(s) + 1 THEN scan.score ELSE -1

\* findRoleByName returns a role of the list or null: the position of the
\* role in the list, or NoRole.
NoRole == 0

RECURSIVE fuzzyBestLatestWins(_, _, _, _, _)
fuzzyBestLatestWins(roles, norm, i, best, bestScore) ==
  IF i > Len(roles) THEN [best |-> best, bestScore |-> bestScore]
  ELSE LET score == fuzzyScore(norm, normalize(roles[i]))
       IN IF score >= bestScore /\ score > 0
          THEN fuzzyBestLatestWins(roles, norm, i + 1, i, score)
          ELSE fuzzyBestLatestWins(roles, norm, i + 1, best, bestScore)

\* The fuzzy loop of findRoleByName from role i on.
RECURSIVE fuzzyBest(_, _, _, _, _)
fuzzyBest(roles, norm, i, best, bestScore) ==
  IF i > Len(roles) THEN [best |-> best, bestScore |-> bestScore]
  ELSE LET score == fuzzyScore(norm, normalize(roles[i]))
       IN IF score > bestScore
          THEN fuzzyBest(roles, norm, i + 1, i, score)
          ELSE fuzzyBest(roles, norm, i + 1, best, bestScore)

findRoleByName(roles, roleName) ==
  IF roleName = <<>> THEN NoRole
  ELSE LET norm == normalize(roleName)
           exact == {i \in 1..Len(roles) : normalize(roles[i]) = norm}
           fuzzy == fuzzyBest(roles, norm, 1, NoRole, 0)
       IN IF exact # {} THEN CHOOSE i \in exact : \A j \in exact : i <= j
          ELSE IF fuzzy.bestScore >= 2 THEN fuzzy.best ELSE NoRole

Admin == <<"A", "d", "m", "i", "n">>
Moderator == <<"M", "o", "d", "e", "r", "a", "t", "o", "r">>
Mod == <<"M", "o", "d">>
Cafe == <<"c", "a", "f", "E_acute">>

\* The role lists of a guild, as getGuildRoles returns them.
RoleLists ==
  { <<Admin, Moderator>>, <<Moderator, Mod, Admin>>, <<Cafe, Admin>>, <<>> }

SearchLetters == {"a", "d", "m", "o"}

\* The role names the "who has role X" intent extracts from a lowercased
\* message: trimmed, and longer than one character.
RoleSearches ==
  {<<a, b>> : a \in SearchLetters, b \in SearchLetters}
  \cup {<<a, b, c>> : a \in SearchLetters, b \in SearchLetters, c \in SearchLetters}
  \cup { <<"x", "y", "z">>, <<"a", "d", "m", "i", "n">>, <<"m", "o", "d">>,
         <<"c", "a", "f", "e">>, <<"c", "a", "f", "e_acute">>, <<"a", " ", "n">> }

\* routeIntent for a "who has role X" message: the role lookup (lines 174-178).
RouteRoleIntent(roleName) ==
  /\ Len(roleName) > 1
  /\ runs' = [runs EXCEPT !.search = roleName]
  /\ lastOp' = [op |-> "findRoleByName", failPoint |-> "none",
                result |-> findRoleByName(runs.roles, roleName)]
  /\ UNCHANGED <<db, now, state, inMemoryTurns, tasks, editState, messages>>

InitRoles ==
  /\ db = EmptyStore
  /\ now = T0
  /\ state = EmptyTable
  /\ inMemoryTurns = EmptyTable
  /\ tasks = EmptyBag
  /\ \E roles \in RoleLists : runs = [roles |-> roles, search |-> <<>>]
  /\ lastOp = NoOp
  /\ editState = EmptyTable
  /\ messages = EmptyTable

NextRoles ==
  \E roleName \in RoleSearches : RouteRoleIntent(roleName)

SpecRoles == InitRoles /\ [][NextRoles]_vars

----------------------------------------------------------------------------
(* Claims about the role lookup                                             *)

RECURSIVE IsSubsequence(_, _)
IsSubsequence(s, t) ==
  IF s = <<>> THEN TRUE
  ELSE IF t = <<>> THEN FALSE
  ELSE IF Head(s) = Head(t) THEN IsSubsequence(Tail(s), Tail(t))
  ELSE IsSubsequence(s, Tail(t))

\* C27: findRoleByName returns the first role whose normalized name equals
\* the normalized search, if there is one; otherwise, among the roles of
\* which the search is an ordered subsequence, the earliest of those with
\* the highest fuzzy score, provided that score is at least 2; otherwise
\* nothing.  For the roles Admin and Moderator, "adm" selects Admin and
\* "xyz" selects nothing.
C27_FindRoleByName ==
  lastOp.op = "findRoleByName" =>
    LET roles == runs.roles
        norm == normalize(runs.search)
        result == lastOp.result
        exact == {i \in 1..Len(roles) : normalize(roles[i]) = norm}
        consumed == {i \in 1..Len(roles) : IsSubsequence(norm, normalize(roles[i]))}
        top == {i \in consumed :
                  \A j \in consumed : fuzzyScore(norm, roles[j]) <= fuzzyScore(norm, roles[i])}
    IN /\ IF exact # {}
          THEN result \in exact /\ \A j \in exact : result <= j
          ELSE IF top # {} /\ \E i \in top : fuzzyScore(norm, roles[i]) >= 2
          THEN result \in top /\ \A j \in top : result <= j
          ELSE result = NoRole
       /\ (roles = <<Admin, Moderator>> /\ runs.search = <<"a", "d", "m">>) => result = 1
       /\ (roles = <<Admin, Moderator>> /\ runs.search = <<"x", "y", "z">>) => result = NoRole

\* "mod" was looked up among Moderator, Mod and Admin: the exact match Mod
\* was returned, not the earlier Moderator of which "mod" is a prefix.
C27_Witness ==
  /\ lastOp.op = "findRoleByName"
  /\ runs.roles = <<Moderator, Mod, Admin>>
  /\ runs.search = <<"m", "o", "d">>
  /\ lastOp.result = 2

----------------------------------------------------------------------------
(* services/media.js and utils/validators.js: fetchImageAsDataUrl,         *)
(* resolveDirectMediaUrl and isSafeHttpsUrl.  A URL is its protocol, its   *)
(* host name and the segments of its path; an IPv4 address is the tuple    *)
(* of its four numbers.                                                     *)

URL(protocol, hostname, path) ==
  [protocol |-> protocol, hostname |-> hostname, path |-> path]

\* The host names that are IPv4 literals, and their addresses (net.isIP).
IPLiterals == ("10.0.0.5" :> <<10, 0, 0, 5>>) @@ ("169.254.169.254" :> <<169, 254, 169, 254>>)

\* What dns.lookup answers for the other host names.
DNSRecords ==
  ("cdn.example" :> {<<93, 184, 216, 34>>})
  @@ ("media.giphy.com" :> {<<151, 101, 2, 2>>})
  @@ ("giphy.com" :> {<<151, 101, 2, 3>>})
  @@ ("intranet.example" :> {<<93, 184, 216, 35>>, <<192, 168, 1, 7>>})
  @@ ("localhost" :> {<<127, 0, 0, 1>>})

isPrivateIp(address) ==
  LET a == address[1]
      b == address[2]
  IN \/ a = 10
     \/ a = 127
     \/ a = 169 /\ b = 254
     \/ a = 172 /\ b >= 16 /\ b <= 31
     \/ a = 192 /\ b = 168

dnsLookup(hostname) ==
  IF hostname \in DOMAIN IPLiterals THEN {IPLiterals[hostname]} ELSE DNSRecords[hostname]

isSafeHttpsUrl(url) ==
  /\ url.protocol = "https:"
  /\ ~(url.hostname \in DOMAIN IPLiterals /\ isPrivateIp(IPLiterals[url.hostname]))
  /\ url.hostname # "localhost"
  /\ \A address \in dnsLookup(url.hostname) : ~isPrivateIp(address)

\* imageExt.test(u): the last path segment ends in an image extension.
ImageFiles == {"a.png", "r.png", "s.png", "giphy.gif"}
imageExt(url) == url.path # <<>> /\ url.path[Len(url.path)] \in ImageFiles

\* The id parseGiphyIdFromUrl's pattern takes from the slug of a /gifs/ page.
SlugIds == ("cat-abc" :> "abc")

NoId == ""

parseGiphyIdFromUrl(url) ==
  IF url.hostname \notin {"giphy.com", "media.giphy.com"} THEN NoId
  ELSE IF Len(url.path) >= 2 /\ url.path[1] = "media" THEN url.path[2]
  ELSE IF Len(url.path) >= 2 /\ url.path[1] = "gifs" /\ url.path[2] \in DOMAIN SlugIds
       THEN SlugIds[url.path[2]]
  ELSE NoId

buildGiphyDirectUrl(id) == URL("https:", "media.giphy.com", <<"media", id, "giphy.gif">>)

\* resolveDirectMediaUrl: the direct URL, or <<>> for null.  resolveGiphyDirect
\* finds nothing that parseGiphyIdFromUrl has not found before it.
resolveDirectMediaUrl(u) ==
  IF imageExt(u) THEN <<u>>
  ELSE IF parseGiphyIdFromUrl(u) # NoId THEN <<buildGiphyDirectUrl(parseGiphyIdFromUrl(u))>>
  ELSE <<>>

Metadata == URL("http:", "169.254.169.254", <<"latest", "meta-data">>)

\* The URLs of the attachments and links of a message.
ImageUrls ==
  { URL("https:", "cdn.example", <<"a.png">>),
    URL("https:", "cdn.example", <<"r.png">>),
    URL("https:", "cdn.example", <<"s.png">>),
    URL("http:", "cdn.example", <<"a.png">>),
    URL("https:", "localhost", <<"a.png">>),
    URL("https:", "10.0.0.5", <<"a.png">>),
    URL("https:", "intranet.example", <<"a.png">>),
    URL("https:", "giphy.com", <<"gifs", "cat-abc">>) }

\* The servers that answer with a redirect, and the Location they give;
\* every other URL is answered with its content.
Redirects ==
  (URL("https:", "cdn.example", <<"r.png">>) :> Metadata)
  @@ (URL("https:", "cdn.example", <<"s.png">>) :> URL("https:", "cdn.example", <<"a.png">>))

\* The content type of the answer of a URL that does not redirect.
contentTypeOf(url) ==
  IF url.path # <<>> /\ url.path[Len(url.path)] = "giphy.gif" THEN "image/gif"
  ELSE IF imageExt(url) THEN "image/png"
  ELSE "text/plain"

IMAGE_MIME == {"image/png", "image/jpeg", "image/webp", "image/gif"}

\* An entry of the log: a URL that isSafeHttpsUrl examined, or a URL to
\* which an HTTP request was sent.
SafetyChecked(call, url) ==
  [kind |-> "check", call |-> call, url |-> url, safe |-> isSafeHttpsUrl(url)]
RequestSent(call, url) == [kind |-> "request", call |-> call, url |-> url, safe |-> FALSE]

CallsStarted == Cardinality({e.call : e \in Range(runs)})

\* fetchImageAsDataUrl up to the request of line 16: the URL is resolved
\* and checked, and when the check passes the request is sent.
FetchImageAsDataUrl(url) ==
  LET call == CallsStarted + 1
      resolved == resolveDirectMediaUrl(url)
      finalUrl == IF resolved # <<>> THEN resolved[1] ELSE url
  IN /\ CallsStarted < MaxFetches
     /\ IF isSafeHttpsUrl(finalUrl)
        THEN /\ runs' = runs \o <<SafetyChecked(call, finalUrl), RequestSent(call, finalUrl)>>
             /\ tasks' = tasks (+) One([call |-> call, finalUrl |-> finalUrl,
                                         current |-> finalUrl])
             /\ lastOp' = NoOp
        ELSE /\ runs' = Append(runs, SafetyChecked(call, finalUrl))
             /\ tasks' = tasks
             /\ lastOp' = [op |-> "fetchImageAsDataUrl", failPoint |-> "none",
                           call |-> call, result |-> "null"]
     /\ UNCHANGED <<db, now, state, inMemoryTurns, editState, messages>>

\* The server of the current URL answers with a redirect, and fetch, called
\* with redirect: 'follow', sends the next request to the Location.
RedirectFollowed(t) ==
  /\ BagIn(t, tasks)
  /\ t.current \in DOMAIN Redirects
  /\ runs' = Append(runs, RequestSent(t.call, Redirects[t.current]))
  /\ tasks' = (tasks (-) One(t)) (+) One([t EXCEPT !.current = Redirects[t.current]])
  /\ lastOp' = NoOp
  /\ UNCHANGED <<db, now, state, inMemoryTurns, editState, messages>>

\* The server of the current URL answers with its content: fetch resolves
\* and fetchImageAsDataUrl runs from line 17 to its return.
ResponseArrives(t) ==
  LET redirected == t.current # t.finalUrl
      redirectSafe == isSafeHttpsUrl(t.current)
      contentType == contentTypeOf(t.current)
      isGif == contentType = "image/gif"
                 \/ (t.finalUrl.path # <<>>
                     /\ t.finalUrl.path[Len(t.finalUrl.path)] = "giphy.gif")
      result == IF redirected /\ ~redirectSafe THEN "null"
                ELSE IF isGif THEN "url"
                ELSE IF contentType \notin IMAGE_MIME THEN "null"
                ELSE "data"
  IN /\ BagIn(t, tasks)
     /\ t.current \notin DOMAIN Redirects
     /\ runs' = IF redirected THEN Append(runs, SafetyChecked(t.call, t.current)) ELSE runs
     /\ tasks' = tasks (-) One(t)
     /\ lastOp' = [op |-> "fetchImageAsDataUrl", failPoint |-> "none",
                   call |-> t.call, result |-> result]
     /\ UNCHANGED <<db, now, state, inMemoryTurns, editState, messages>>

InitFetch ==
  /\ db = EmptyStore
  /\ now = T0
  /\ state = EmptyTable
  /\ inMemoryTurns = EmptyTable
  /\ tasks = EmptyBag
  /\ runs = <<>>
  /\ lastOp = NoOp
  /\ editState = EmptyTable
  /\ messages = EmptyTable

NextFetch ==
  \/ \E url \in ImageUrls : FetchImageAsDataUrl(url)
  \/ \E t \in BagToSet(tasks) : RedirectFollowed(t)
  \/ \E t \in BagToSet(tasks) : ResponseArrives(t)

SpecFetch == InitFetch /\ [][NextFetch]_vars

----------------------------------------------------------------------------
(* Claims about the image fetch                                             *)

\* C28: no HTTP request goes to an unsafe URL while an image is resolved:
\* every URL requested by fetchImageAsDataUrl, the target of a followed
\* redirect included, passed the isSafeHttpsUrl check before the request
\* to it was sent.
C28_NoRequestBeforeCheck ==
  \A i \in DOMAIN runs :
    runs[i].kind = "request" =>
      /\ isSafeHttpsUrl(runs[i].url)
      /\ \E j \in 1..(i - 1) :
           /\ runs[j].kind = "check"
           /\ runs[j].call = runs[i].call
           /\ runs[j].url = runs[i].url
           /\ runs[j].safe

----------------------------------------------------------------------------
(* index.js: safeExecute and the event listeners that wrap their handlers  *)
(* in it.  runs is the log of what each safeExecute call did; the calls    *)
(* that have not settled are the in-flight tasks.                          *)

\* The third argument of safeExecute: absent, a message, or an interaction
\* (which may have been deferred or replied to already).
NoContext == "none"
Contexts == {NoContext, "message", "interaction", "deferredInteraction"}

\* The listeners (lines 704-705, 804-805, 873-874, 1257-1258, 1283-1284,
\* 1302-1303) call safeExecute(label, fn) without a context.
Listeners ==
  {"messageCreate", "messageUpdate", "interactionCreate",
   "messageReactionAdd", "messageReactionRemove", "ready"}

ListenerCalls == {<<label, NoContext>> : label \in Listeners}

\* safeExecute called with the context of the event as well.
ContextCalls ==
  { <<"messageCreate", "message">>,
    <<"interactionCreate", "interaction">>,
    <<"interactionCreate", "deferredInteraction">> }

Did(call, kind) == [call |-> call, kind |-> kind]

EventsDispatched == Cardinality({e.call : e \in Range(runs)})

\* The method of the context that the catch block of safeExecute calls.
notifyMethod(context) ==
  IF context = "deferredInteraction" THEN "followUp" ELSE "reply"

\* An event arrives: safeExecute is called and awaits fn().
SafeExecute(label, context) ==
  /\ EventsDispatched < MaxEvents
  /\ \E call \in {EventsDispatched + 1} :
       /\ runs' = Append(runs, Did(call, "called"))
       /\ tasks' = tasks (+) One([call |-> call, label |-> label, context |-> context,
                                   pc |-> "fn"])
  /\ lastOp' = NoOp
  /\ UNCHANGED <<db, now, state, inMemoryTurns, editState, messages>>

\* fn() resolves, and with it safeExecute.
HandlerResolves(t) ==
  /\ BagIn(t, tasks)
  /\ t.pc = "fn"
  /\ runs' = Append(runs, Did(t.call, "resolved"))
  /\ tasks' = tasks (-) One(t)
  /\ lastOp' = NoOp
  /\ UNCHANGED <<db, now, state, inMemoryTurns, editState, messages>>

\* fn() rejects: the catch block logs the error, returns when there is no
\* context, and otherwise sends the notification and awaits it.
HandlerRejects(t) ==
  /\ BagIn(t, tasks)
  /\ t.pc = "fn"
  /\ IF t.context = NoContext
     THEN /\ runs' = runs \o <<Did(t.call, "error logged"), Did(t.call, "resolved")>>
          /\ tasks' = tasks (-) One(t)
     ELSE /\ runs' = runs \o <<Did(t.call, "error logged"),
                               Did(t.call, notifyMethod(t.context))>>
          /\ tasks' = (tasks (-) One(t)) (+) One([t EXCEPT !.pc = "notify"])
  /\ lastOp' = NoOp
  /\ UNCHANGED <<db, now, state, inMemoryTurns, editState, messages>>

\* The notification settles; its failure is logged in the inner catch.
NotificationSettles(t, delivered) ==
  /\ BagIn(t, tasks)
  /\ t.pc = "notify"
  /\ runs' = IF delivered THEN Append(runs, Did(t.call, "resolved"))
             ELSE runs \o <<Did(t.call, "notify error logged"), Did(t.call, "resolved")>>
  /\ tasks' = tasks (-) One(t)
  /\ lastOp' = NoOp
  /\ UNCHANGED <<db, now, state, inMemoryTurns, editState, messages>>

InitGuard ==
  /\ db = EmptyStore
  /\ now = T0
  /\ state = EmptyTable
  /\ inMemoryTurns = EmptyTable
  /\ tasks = EmptyBag
  /\ runs = <<>>
  /\ lastOp = NoOp
  /\ editState = EmptyTable
  /\ messages = EmptyTable

NextGuard ==
  \/ \E c \in ListenerCalls \cup ContextCalls : SafeExecute(c[1], c[2])
  \/ \E t \in BagToSet(tasks) : HandlerResolves(t)
  \/ \E t \in BagToSet(tasks) : HandlerRejects(t)
  \/ \E t \in BagToSet(tasks), delivered \in BOOLEAN : NotificationSettles(t, delivered)

SpecGuard == InitGuard /\ [][NextGuard]_vars

----------------------------------------------------------------------------
(* Claims about the error boundary                                          *)

DidCount(call, kinds) ==
  Len(SelectSeq(runs, LAMBDA e : e.call = call /\ e.kind \in kinds))

\* C29: safeExecute never rejects; when the wrapped handler throws, the
\* error is logged and one user notification is attempted, whose failure is
\* swallowed; and a step of one safeExecute call leaves every other
\* in-flight call as it was.
C29_FailureLoggedAndNotified ==
  /\ \A call \in 1..EventsDispatched :
       /\ DidCount(call, {"rejected"}) = 0
       /\ (DidCount(call, {"error logged"}) = 1 /\ DidCount(call, {"resolved"}) = 1)
            => DidCount(call, {"reply", "followUp"}) = 1
  /\ \A t \in BagToSet(tasks) : DidCount(t.call, {"resolved"}) = 0

----------------------------------------------------------------------------
(* handleMessage with the intent router (editSync.js 188-201): the         *)
(* "find user" intent of routeIntent, which answers from the user-name     *)
(* cache of the guild.                                                     *)

\* The characters of the display names and of the names asked for.
Letters == ("nick" :> <<"n", "i", "c", "k">>) @@ ("zed" :> <<"z", "e", "d">>)

FindVerbs == {"find", "who is", "locate", "search for", "get"}

getGuildUserNames(d, guildId) ==
  {d.guild_users[k].display_name : k \in {x \in DOMAIN d.guild_users : x[1] = guildId}}

NoIntentReply == <<>>

\* routeIntent for a prompt of a verb and a name: the reply, or
\* NoIntentReply for null.
routeIntent(d, prompt, guildId) ==
  IF prompt = <<>> \/ guildId = NoGuild THEN NoIntentReply
  ELSE IF Len(prompt) = 2 /\ prompt[1] \in FindVerbs /\ prompt[2] \in DOMAIN Letters
  THEN LET userName == prompt[2]
           matches == {name \in getGuildUserNames(d, guildId) :
                         /\ name \in DOMAIN Letters
                         /\ includes(normalize(Letters[name]), normalize(Letters[userName]))}
       IN IF Len(Letters[userName]) > 1 /\ matches # {}
          THEN <<"Found:", CHOOSE name \in matches : TRUE>>
          ELSE NoIntentReply
  ELSE NoIntentReply

\* handleMessage: the recording prefix, the intent router, and, when no
\* intent answers, handlePrompt up to the completion request.
HandleMessageRouted(userId, channelId, content, displayName) ==
  LET isDirect == ChannelGuild(channelId) = NoGuild
      allowMemoryContext == messageAllowsMemory(db, userId, channelId)
      records == allowMemoryContext /\ content # <<>>
      mentioned == MENTION \in Range(content)
      prompt == IF isDirect THEN content
                ELSE IF mentioned THEN stripMention(content) ELSE content
      handled == isDirect \/ mentioned
      recorded == IF records
                  THEN recordUserMessage(db, RecordArgs(userId, channelId, content,
                                                        displayName), now, "none")
                  ELSE db
  IN /\ records => db.last_id < MaxBotLog
     /\ \E intentReply \in {routeIntent(recorded, prompt, ChannelGuild(channelId))} :
          IF ~handled \/ prompt = <<>>
          THEN /\ db' = recorded
               /\ lastOp' = NoOp
               /\ UNCHANGED <<state, inMemoryTurns, tasks>>
          ELSE IF intentReply # NoIntentReply
          THEN /\ db' = recorded
               /\ lastOp' = [op |-> "intentReply", failPoint |-> "none",
                             userId |-> userId, prompt |-> prompt, reply |-> intentReply]
               /\ UNCHANGED <<state, inMemoryTurns, tasks>>
          ELSE /\ BagCardinality(tasks) < MaxTasks
               /\ getEntry(state, userId).duplicateCount < MaxDuplicates
               /\ allowMemoryContext => TurnsBelowCap(userId)
               /\ \E r \in {handlePromptStart(NewTask(userId, channelId, prompt,
                                                      allowMemoryContext, displayName),
                                              recorded, state, inMemoryTurns, now)} :
                    /\ db' = r.db
                    /\ state' = r.state
                    /\ inMemoryTurns' = r.turns
                    /\ tasks' = IF r.task.pc = "done" THEN tasks ELSE tasks (+) One(r.task)
                    /\ lastOp' = [op |-> "handlePrompt", failPoint |-> "none",
                                  userId |-> userId, prompt |-> prompt, reply |-> <<r.reply>>]
     /\ UNCHANGED <<now, runs, editState, messages>>

RoutedMessages ==
  { <<"u1", "c1", <<MENTION, "who is", "nick">>>>,
    <<"u1", "c1", <<MENTION, "find", "zed">>>>,
    <<"u1", "c1", <<MENTION, "hello">>>>,
    <<"u2", "c1", <<"hello">>>>,
    <<"u1", "dm1", <<"who is", "nick">>>> }

NextIntent ==
  \/ \E m \in RoutedMessages : HandleMessageRouted(m[1], m[2], m[3], "nick")
  \/ \E t \in BagToSet(tasks) : CompletionReturns(t, "answer")
  \/ AllowChannel("c1")
  \/ \E t \in BotInstants : TickBot(t)

SpecIntent == InitBot /\ [][NextIntent]_vars

----------------------------------------------------------------------------
(* Claims about the order of the rate limiter and the intent router        *)

\* C31: the rate limiter comes before the intent router: an intent-router
\* reply is delivered only for a request that the rate limiter allowed,
\* and the request has updated the rate-limiter state by then.
C31_RateLimitBeforeIntent ==
  [][lastOp'.op = "intentReply" =>
       LET rate == checkRateLimit(state, lastOp'.userId, rateKey(lastOp'.prompt, <<>>), now)
       IN rate.allow /\ state' = rate.state]_vars

----------------------------------------------------------------------------
(* Messages with image attachments: handleMessage and handlePrompt with    *)
(* imageUrls (handlePrompt.js 24-59 and 72-113).  The messages carry no    *)
(* video and reply to nothing.                                             *)

CountText == (1 :> "1") @@ (2 :> "2")

\* rateKey of handlePrompt: prompt, reply context and the URLs joined by "|".
RECURSIVE joinUrls(_)
joinUrls(urls) ==
  IF urls = <<>> THEN <<>> ELSE <<"|", Head(urls)>> \o joinUrls(Tail(urls))

rateKeyWithImages(prompt, replyContextText, imageUrls) ==
  prompt \o <<"|">> \o replyContextText \o joinUrls(imageUrls)

\* memoryContent of handlePrompt (lines 38-50).
memoryContentWithImages(prompt, replyContextText, imageUrls) ==
  IF prompt = <<>> /\ imageUrls # <<>>
  THEN <<"User sent", CountText[Len(imageUrls)], "image(s).">>
  ELSE IF imageUrls # <<>>
  THEN prompt \o <<"[shared", CountText[Len(imageUrls)], "image(s)]">>
  ELSE IF prompt = <<>> /\ replyContextText # <<>> THEN <<"User replied to a message.">>
  ELSE prompt

\* handleMessage for a message with images, up to the first image fetch of
\* handlePrompt (line 75), or to its return when the request is rejected.
HandleImageMessage(userId, channelId, content, imageUrls, displayName) ==
  LET isDirect == ChannelGuild(channelId) = NoGuild
      allowMemoryContext == messageAllowsMemory(db, userId, channelId)
      passivelyRecords == allowMemoryContext /\ content # <<>>
      mentioned == MENTION \in Range(content)
      prompt == IF isDirect THEN content
                ELSE IF mentioned THEN stripMention(content) ELSE content
      handled == isDirect \/ mentioned
      recorded == IF passivelyRecords
                  THEN recordUserMessage(db, RecordArgs(userId, channelId, content,
                                                        displayName), now, "none")
                  ELSE db
      rate == checkRateLimit(state, userId, rateKeyWithImages(prompt, <<>>, imageUrls), now)
      alreadyRecorded == allowMemoryContext
      records == /\ getUserSettings(recorded, userId).memory_enabled = 1
                 /\ allowMemoryContext /\ ~alreadyRecorded
      stored == IF records
                THEN recordUserMessage(recorded,
                       RecordArgs(userId, channelId,
                                  memoryContentWithImages(prompt, <<>>, imageUrls),
                                  displayName), now, "none")
                ELSE recorded
      t == [NewTask(userId, channelId, prompt, allowMemoryContext, displayName)
              EXCEPT !.pc = "images"]
  IN /\ passivelyRecords => CanRecord(db)
     /\ IF ~handled
        THEN /\ db' = recorded
             /\ lastOp' = NoOp
             /\ UNCHANGED <<state, tasks>>
        ELSE /\ getEntry(state, userId).duplicateCount < MaxDuplicates
             /\ BagCardinality(tasks) < MaxTasks
             /\ state' = rate.state
             /\ lastOp' = [op |-> "imageMessage", failPoint |-> "none",
                           userId |-> userId, content |-> content,
                           imageUrls |-> imageUrls, allowMemory |-> allowMemoryContext,
                           allow |-> rate.allow]
             /\ IF ~rate.allow \/ containsHateSpeech(prompt)
                THEN db' = recorded /\ tasks' = tasks
                ELSE db' = stored /\ tasks' = tasks (+) One(t)
     /\ UNCHANGED <<now, inMemoryTurns, runs, editState, messages>>

\* The image fetches settle, some of them with an image: handlePrompt goes
\* on to the completion request (lines 86-131).
ImagesResolved(t, imageInputs) ==
  LET effective == IF t.prompt = <<>> /\ imageInputs > 0 THEN <<"User sent an image.">>
                   ELSE t.prompt
      pushed == IF effective = <<>> THEN <<"...">> ELSE effective
  IN /\ BagIn(t, tasks)
     /\ t.pc = "images"
     /\ t.allowMemory => TurnsBelowCap(t.userId)
     /\ inMemoryTurns' = IF t.allowMemory
                         THEN addTurn(inMemoryTurns, t.userId, "user", pushed)
                         ELSE inMemoryTurns
     /\ tasks' = (tasks (-) One(t)) (+) One([t EXCEPT !.pc = "llm", !.userContent = effective])
     /\ lastOp' = NoOp
     /\ UNCHANGED <<db, now, state, runs, editState, messages>>

ImageMessages ==
  { <<"u1", "dm1", <<>>, <<"img1">>>>,
    <<"u1", "dm1", <<>>, <<"img1", "img2">>>>,
    <<"u1", "dm1", <<"look">>, <<"img1">>>>,
    <<"u1", "c1", <<MENTION>>, <<"img1">>>>,
    <<"u2", "c1", <<"look">>, <<"img1">>>> }

NextImages ==
  \/ \E m \in ImageMessages : HandleImageMessage(m[1], m[2], m[3], m[4], "nick")
  \/ \E t \in BagToSet(tasks), k \in 0..1 : ImagesResolved(t, k)
  \/ \E t \in BagToSet(tasks) : CompletionReturns(t, "answer")
  \/ \E t \in BotInstants : TickBot(t)

SpecImages == InitBot /\ [][NextImages]_vars

----------------------------------------------------------------------------
(* Claims about the record of an image message                              *)

\* C32: for a memory-allowed inbound message with image attachments and no
\* text content that the bot handles, exactly one message is recorded, with
\* the content "User sent N image(s)." for its N images.
C32_ImageMessageRecordedOnce ==
  [][(/\ lastOp'.op = "imageMessage"
      /\ lastOp'.allowMemory /\ lastOp'.allow
      /\ lastOp'.content = <<>>) =>
       /\ Len(db'.user_messages) = Len(db.user_messages) + 1
       /\ db'.user_messages[Len(db'.user_messages)].user_id = lastOp'.userId
       /\ db'.user_messages[Len(db'.user_messages)].content =
            <<"User sent", CountText[Len(lastOp'.imageUrls)], "image(s).">>]_vars

----------------------------------------------------------------------------
(* Claims about the purge of the edit-tracking entries                      *)

\* The bot replies sent within the edit window that ends at instant t.
RepliesTrackedSince(msgs, t) ==
  {r \in DOMAIN msgs : msgs[r].author = "bot" /\ t - msgs[r].sentAt <= EDIT_WINDOW_MS}

----------------------------------------------------------------------------
(* Claims about rejected rate-limit checks                                  *)

\* C34: a rejected check leaves the stored last-activity time and prompt
\* key of the identity as they were, so a request that arrives 3s or more
\* after the identity's last allowed request is allowed whatever was
\* rejected in between; and a check for one identity changes neither the
\* entry of another identity nor the outcome of its next check.
C34_RejectionPostponesNothing ==
  [][lastOp'.op = "checkRateLimit" =>
       LET u == lastOp'.userId
       IN /\ ~lastOp'.allow =>
               /\ getEntry(state', u).lastAt = getEntry(state, u).lastAt
               /\ getEntry(state', u).lastPrompt = getEntry(state, u).lastPrompt
          /\ (u \notin DOMAIN runs \/ now - runs[u].lastAllowedAt >= COOLDOWN_MS)
               => lastOp'.allow
          /\ \A v \in Users \ {u} :
               /\ (v \in DOMAIN state') = (v \in DOMAIN state)
               /\ getEntry(state', v) = getEntry(state, v)
               /\ \A p \in RateKeys :
                    checkRateLimit(state', v, p, now).allow
                      = checkRateLimit(state, v, p, now).allow]_vars

\* u1 has just been told to stop spamming for the second time, while u2 has
\* an entry too: the stored time of u1 is still that of the last allowed
\* request.
C34_Witness ==
  /\ lastOp.op = "checkRateLimit" /\ lastOp.userId = "u1"
  /\ ~lastOp.allow /\ lastOp.message = STOP_SPAMMING
  /\ state["u1"].duplicateCount >= 3
  /\ state["u1"].lastAt = runs["u1"].lastAllowedAt
  /\ "u2" \in DOMAIN state

----------------------------------------------------------------------------
(* Claims about the message counts and the message log                      *)

CountMatchesLog(d) ==
  \A u \in Users : getUserSettings(d, u).message_count = RowsFor(d, u, "user_id")

----------------------------------------------------------------------------
(* /memory forget between conversations.  The command handler calls       *)
(* forgetUser on the store and replies; so does /lobotomize with scope     *)
(* "me" (executeLobotomizeCommand).                                        *)

\* The interaction handler of /memory, subcommand "forget".
ExecuteMemoryForget(userId) ==
  /\ db' = forgetUserStmts(db, userId)
  /\ lastOp' = [op |-> "memoryForget", failPoint |-> "none", target |-> userId]
  /\ UNCHANGED <<now, state, inMemoryTurns, tasks, runs, editState, messages>>

\* What the users say: u1 states a name, u2 says nothing a note is made of.
ForgetMessages ==
  { <<"u1", "c1", <<MENTION, "my name is", "Alex">>>>,
    <<"u2", "c1", <<MENTION, "hello">>>> }

\* The notes extractSummaryNotes makes of what userId says.
NotesSaidBy(userId) ==
  UNION { Range(extractSummaryNotes(m[3])) : m \in {x \in ForgetMessages : x[1] = userId} }

\* The values handlePrompt reads for its completion request (lines 61-67,
\* and the cached turns of line 105) for a remembered prompt of userId in
\* channelId, before it adds the turn of the new prompt.
contextOf(d, turns, userId, channelId) ==
  [profileSummary |-> getUserSettings(d, userId).profile_summary,
   recentUserMessages |-> SelectSeq(d.user_messages, LAMBDA r : r.user_id = userId),
   recentTurns |-> getTurns(turns, userId),
   channelSummary |-> getChannelProfile(d, channelId, ChannelGuild(channelId)).summary,
   guildSummary |-> getGuildProfile(d, ChannelGuild(channelId)).summary]

NextForget ==
  \/ \E m \in ForgetMessages : HandleMessage(m[1], m[2], m[3], "nick")
  \/ \E t \in BagToSet(tasks) : CompletionReturns(t, "answer")
  \/ \E u \in Users : ExecuteMemoryForget(u)
  \/ AllowChannel("c1")
  \/ \E t \in BotInstants : TickBot(t)

SpecForget == InitBot /\ [][NextForget]_vars

\* C36: when /memory forget of a user has completed, the context of that
\* user's next prompt holds nothing derived from what the user sent before:
\* the profile summary and the recent user messages are empty, no turn
\* cached before the forget is left, and the channel and guild summaries
\* hold no note made of the user's messages.
C36_ForgetLeavesNothing ==
  [][\A u \in Users :
       ExecuteMemoryForget(u) =>
         LET c == contextOf(db', inMemoryTurns', u, "c1")
         IN /\ c.profileSummary = <<>>
            /\ c.recentUserMessages = <<>>
            /\ c.recentTurns = <<>>
            /\ Range(c.channelSummary) \cap NotesSaidBy(u) = {}
            /\ Range(c.guildSummary) \cap NotesSaidBy(u) = {}]_vars

\* The parts of C36 taken one at a time: what the store keeps of the user,
\* the cached turns, and the summaries shared with the channel and guild.
C36_StoreRowsGone ==
  [][\A u \in Users :
       ExecuteMemoryForget(u) =>
         LET c == contextOf(db', inMemoryTurns', u, "c1")
         IN c.profileSummary = <<>> /\ c.recentUserMessages = <<>>]_vars

C36_TurnsGone ==
  [][\A u \in Users :
       ExecuteMemoryForget(u) => getTurns(inMemoryTurns', u) = <<>>]_vars

C36_SharedSummariesClean ==
  [][\A u \in Users :
       ExecuteMemoryForget(u) =>
         LET c == contextOf(db', inMemoryTurns', u, "c1")
         IN /\ Range(c.channelSummary) \cap NotesSaidBy(u) = {}
            /\ Range(c.guildSummary) \cap NotesSaidBy(u) = {}]_vars

----------------------------------------------------------------------------
(* recordUserMessage calls per inbound event.  handleMessage and            *)
(* handleMessageUpdate record, then await the reply context (and the intent *)
(* router) before they call handlePrompt, so commands of other interactions *)
(* run in between; executeAskCommand records and calls handlePrompt without *)
(* suspending.  runs keeps, per event, the number of recordUserMessage      *)
(* calls made for it.                                                       *)

EventKinds == {"message", "edit", "ask"}

RecordCalls(event) == IF event \in DOMAIN runs THEN runs[event] ELSE 0

\* A handlePrompt call of an event: the call, the event and its kind, and
\* the memory_enabled value the settings read of line 22 returned to it.
EventCall(call, event, kind, enabledRead) ==
  [call |-> call, event |-> event, kind |-> kind, enabledRead |-> enabledRead]

\* The handler of an event up to its call of handlePrompt.  accepted is the
\* result of shouldHandleEdit for an edit (the message is tracked or not).
EventArrives(kind, userId, channelId, content, accepted, displayName) ==
  LET event == Cardinality(DOMAIN runs) + 1
      isDirect == ChannelGuild(channelId) = NoGuild
      allowMemoryContext == IF kind = "ask" THEN askAllowsMemory(db, userId, channelId)
                            ELSE messageAllowsMemory(db, userId, channelId)
      records == allowMemoryContext /\ content # <<>>
      mentioned == MENTION \in Range(content)
      prompt == IF kind = "ask" \/ isDirect THEN content ELSE stripMention(content)
      calls == CASE kind = "ask" -> TRUE
                 [] kind = "message" -> (isDirect \/ mentioned) /\ prompt # <<>>
                 [] kind = "edit" -> accepted /\ (isDirect \/ mentioned) /\ prompt # <<>>
      recorded == IF records
                  THEN recordUserMessage(db, RecordArgs(userId, channelId, content,
                                                        displayName), now, "none")
                  ELSE db
      call == NewTask(userId, channelId, prompt, allowMemoryContext, displayName)
  IN /\ event <= MaxEvents
     /\ kind # "edit" => accepted
     /\ getEntry(state, userId).duplicateCount < MaxDuplicates
     /\ IF kind = "ask"
        THEN \E r \in {handlePromptStart(call, recorded, state, inMemoryTurns, now)} :
               /\ db' = r.db
               /\ state' = r.state
               /\ inMemoryTurns' = r.turns
               /\ tasks' = IF r.task.pc = "done" THEN tasks
                           ELSE tasks (+) One(EventCall(r.task, event, kind,
                                   getUserSettings(recorded, userId).memory_enabled))
               /\ runs' = Upsert(runs, event,
                                 (IF records THEN 1 ELSE 0)
                                 + (IF "recordUserMessage" \in r.task.storeOps THEN 1 ELSE 0))
        ELSE /\ db' = recorded
             /\ tasks' = IF calls THEN tasks (+) One(EventCall(call, event, kind, 0)) ELSE tasks
             /\ runs' = Upsert(runs, event, IF records THEN 1 ELSE 0)
             /\ UNCHANGED <<state, inMemoryTurns>>
     /\ lastOp' = NoOp
     /\ UNCHANGED <<now, editState, messages>>

\* The handler's awaits have settled: handlePrompt runs from its entry to
\* the completion request.
HandlePromptEntered(p) ==
  /\ BagIn(p, tasks)
  /\ p.call.pc = "entry"
  /\ \E r \in {handlePromptStart(p.call, db, state, inMemoryTurns, now)} :
       /\ db' = r.db
       /\ state' = r.state
       /\ inMemoryTurns' = r.turns
       /\ tasks' = IF r.task.pc = "done" THEN tasks (-) One(p)
                   ELSE (tasks (-) One(p))
                        (+) One(EventCall(r.task, p.event, p.kind,
                                          getUserSettings(db, p.call.userId).memory_enabled))
       /\ runs' = Upsert(runs, p.event,
                         RecordCalls(p.event)
                         + (IF "recordUserMessage" \in r.task.storeOps THEN 1 ELSE 0))
  /\ lastOp' = NoOp
  /\ UNCHANGED <<now, editState, messages>>

\* getLLMResponse resolves for the call of an event.
EventCallAnswered(p, response) ==
  /\ BagIn(p, tasks)
  /\ p.call.pc = "llm"
  /\ inMemoryTurns' = handlePromptResume(p.call, inMemoryTurns, response)
  /\ tasks' = tasks (-) One(p)
  /\ lastOp' = NoOp
  /\ UNCHANGED <<db, now, state, runs, editState, messages>>

EventInputs ==
  { <<"u1", "c1", <<MENTION, "hello">>>>,
    <<"u1", "c1", <<"hello">>>>,
    <<"u1", "dm1", <<"hello">>>> }

NextEvents ==
  \/ \E k \in EventKinds, m \in EventInputs, a \in BOOLEAN :
       EventArrives(k, m[1], m[2], m[3], a, "nick")
  \/ \E p \in BagToSet(tasks) : HandlePromptEntered(p)
  \/ \E p \in BagToSet(tasks) : EventCallAnswered(p, "answer")
  \/ \E e \in BOOLEAN : SetUserMemory("u1", e)
  \/ AllowChannel("c1")
  \/ DenyChannel("c1")

SpecEvents == InitBot /\ [][NextEvents]_vars

\* C37: an inbound event (a new message, an edit, a /ask) causes at most
\* one recordUserMessage call: a handler that recorded the message is not
\* followed by a second recording in handlePrompt, whether the settings
\* handlePrompt reads have memory enabled or not.
C37_RecordedAtMostOnce ==
  \A event \in DOMAIN runs : runs[event] <= 1

\* handleMessageUpdate recorded an accepted edit, and handlePrompt, called
\* for it and reading settings with memory enabled, has reached the
\* completion request.
C37_Witness ==
  \E p \in BagToSet(tasks) :
    /\ p.kind = "edit"
    /\ p.call.pc = "llm"
    /\ p.call.alreadyRecorded
    /\ p.enabledRead = 1
    /\ RecordCalls(p.event) = 1
    /\ Len(db.user_messages) = 1

----------------------------------------------------------------------------
(* handlePrompt calls of one user that overlap: a call waits for its        *)
(* completion while the rate limiter lets the next request of the same      *)
(* user in (a first repeat of the prompt at once, any prompt one cooldown   *)
(* later).  The completion client answers each request with a text that     *)
(* names the prompt it answers.                                             *)

OverlapPrompts == {<<"hello">>, <<"bye">>}

\* The completion client's answer to a request.
responseTo(userContent) ==
  IF userContent = <<"hello">> THEN "re: hello" ELSE "re: bye"

\* handlePrompt for a remembered text prompt, from its entry to the
\* completion request (or to its return, when the rate limiter rejects).
HandlePromptOverlapping(userId, channelId, prompt) ==
  /\ BagCardinality(tasks) < MaxInFlight
  /\ getEntry(state, userId).duplicateCount < MaxDuplicates
  /\ TurnsBelowCap(userId)
  /\ \E r \in {handlePromptStart(NewTask(userId, channelId, prompt, TRUE, "nick"),
                                 db, state, inMemoryTurns, now)} :
       /\ db' = r.db
       /\ state' = r.state
       /\ inMemoryTurns' = r.turns
       /\ tasks' = IF r.task.pc = "done" THEN tasks ELSE tasks (+) One(r.task)
  /\ lastOp' = NoOp
  /\ UNCHANGED <<now, runs, editState, messages>>

\* getLLMResponse resolves with the answer to the request of the call.
CompletionAnswers(t) == CompletionReturns(t, responseTo(t.userContent))

NextOverlap ==
  \/ \E u \in Users, q \in OverlapPrompts : HandlePromptOverlapping(u, "c1", q)
  \/ \E t \in BagToSet(tasks) : CompletionAnswers(t)
  \/ \E t \in BotInstants : TickBot(t)

SpecOverlap == InitBot /\ [][NextOverlap]_vars

\* C38: however the handlePrompt calls of a user interleave, the user's
\* cached turns alternate between user and assistant, and each assistant
\* turn is the answer to the user turn just before it.
C38_TurnsAlternate ==
  \A u \in DOMAIN inMemoryTurns :
    LET s == inMemoryTurns[u]
    IN \A i \in 1..Len(s) :
         /\ i < Len(s) => s[i].role # s[i + 1].role
         /\ (s[i].role = "assistant" /\ i > 1) =>
              /\ s[i - 1].role = "user"
              /\ s[i].content = <<responseTo(s[i - 1].content)>>

----------------------------------------------------------------------------
(* An accepted edit and the rate limiter. *)

\* The texts checkRateLimit rejects a request with.
ThrottleMessages == {STOP_SPAMMING, SLOW_DOWN}

\* C39: when the reply function of an accepted edit has edited the tracked
\* bot reply, the reply holds a completion's answer and never a throttle
\* message of the rate limiter, also when the edit came less than one
\* cooldown after the original request was allowed.
C39_EditNeverThrottled ==
  [][(/\ lastOp'.op = "replyFn"
      /\ lastOp'.via = "handleMessageUpdate"
      /\ lastOp'.ok
      /\ messages' # messages) =>
       \A id \in DOMAIN messages' :
         (messages'[id].author = "bot" /\ messages'[id].content # messages[id].content) =>
           messages'[id].content \notin ThrottleMessages]_vars

====
